---- MODULE Spec2Model ----
(***************************************************************************)
(* Simulation core of kolbytn/vertex: Game.animate (src/src/main.ts) and   *)
(* the turn-based combat scheduler (src/unnamed/part_000, imported by      *)
(* main.ts as ./combat.ts).                                                *)
(*                                                                         *)
(* Scope of the state: every actor stands on the ground plane on one line  *)
(* (position is the x coordinate, y = z = 0, isGrounded = TRUE), so that   *)
(* THREE.Vector3.distanceTo is |a - b|.  Elapsed time is the frame delta   *)
(* in milliseconds (main.ts:962 divides by 1000).  The static world is two *)
(* walls that keep the controlled actor within 0..MaxPos.  Of the pressed  *)
(* direction keys only moveForward is kept; the facing (yaw, set from the  *)
(* camera each frame) is the input dir \in {-1, 1}.  A frame drawn while   *)
(* the pointer is not locked runs none of the steps (main.ts:964) and      *)
(* changes nothing here: a tick is a frame with the pointer locked, and    *)
(* a pick is a mouse press with the pointer locked (main.ts:1063).  Of the  *)
(* collision index the model keeps the walls and, in staticCollidables,    *)
(* its actor entries: the name and where the actor's box (userData         *)
(* .worldAABB) is centred.  Positions are whole units and a box is         *)
(* 2 * ENTITY_RADIUS = 0.6 wide, so that two boxes on the line intersect   *)
(* only when centred at the same place.                                    *)
(***************************************************************************)
EXTENDS Integers, Sequences, FiniteSets, TLC

VARIABLES
    pcs,                \* Game.pcs  : id -> EntityState (controllable actors)
    npcs,               \* Game.npcs : id -> EntityState (hostile actors)
    controlledTargetId, \* Game.controlledTargetId
    moveForward,        \* Game.moveForward
    isInCombat,         \* Game.isInCombat
    combatants,         \* Game.combatants
    turnOrder,          \* combat.ts turnOrder
    currentTurnIndex,   \* combat.ts currentTurnIndex (0-based, as in the source)
    turnTimer,          \* combat.ts turnTimer, in milliseconds
    phase,              \* position inside Game.animate
    delta,              \* elapsed time of the frame being processed (ms)
    combatResult,       \* value returned by updateCombatLogic in this frame
    bullets,            \* shots handed to spawnBullet in this frame
    turn,               \* log of the turn resolved in this frame (history)
    started,            \* log: combatant set handed to startCombat in this frame
                        \* (history)
    follow,             \* log: what each idle companion's follow rule saw in
                        \* this frame (history)
    sessionTurns,       \* log: turns resolved since the session started (history)
    staticCollidables,  \* Game.staticCollidables: actor name -> centre of its worldAABB
    pacing,             \* two runs of the turn clock alone (see SpecPacing)
    probe,              \* one call of getBestAttack and the hit that follows
                        \* (see SpecAttack)
    mover               \* one actor in a room, in three dimensions (see SpecMove)

vars == <<pcs, npcs, controlledTargetId, moveForward, isInCombat, combatants,
          turnOrder, currentTurnIndex, turnTimer, phase, delta, combatResult,
          bullets, turn, started, follow, sessionTurns, staticCollidables,
          pacing, probe, mover>>

\* the state of the game proper
gameVars == <<pcs, npcs, controlledTargetId, moveForward, isInCombat, combatants,
              turnOrder, currentTurnIndex, turnTimer, phase, delta, combatResult,
              bullets, turn, started, follow, sessionTurns, staticCollidables>>

\* the state of the probes of single functions
aux == <<pacing, probe, mover>>

---------------------------------------------------------------------------
\* Bounds of the model

\* The walls: the controlled actor moves within 0..MaxPos.
MaxPos == 3

\* The follow scene: the companion starts up to MaxGap behind the leader.
MaxGap == 10

\* the floor of the movement scene: 0..RoomX by 0..RoomZ
RoomX == 1500
RoomZ == 400

\* the platform of the movement scene: its western face and its top
PlatformEdge == 1150
PlatformTop == 1030

\* the beam of the movement scene: its eastern face and its underside
BeamEdge == 250
BeamBottom == 2400

\* entities.ts: the collision body of an actor
ENTITY_HEIGHT == 1800
ENTITY_RADIUS == 300

\* updateMovement: gravity, jumpStrength, horizontalCollisionEpsilon, the
\* height of the feet probe and the tolerances of a landing, the gap left
\* under a ceiling
Gravity == 30000
JumpStrength == 10000
HorizontalCollisionEpsilon == 10
GroundProbeHeight == 100
SnapBelow == 200
SnapAbove == 100
CeilingGap == 10

\* updateNonControlledEntityPhysics: the tolerances of a landing
FallSnapBelow == 100
FallSnapAbove == 50
\* The count of a session's resolved turns stops at MaxTurns; no session of
\* these worlds lasts that long.
MaxTurns == 16

---------------------------------------------------------------------------
\* Program constants

COMPANION_FOLLOW_DISTANCE == 5
COMPANION_STOP_FOLLOW_DISTANCE == 4
COMPANION_FOLLOW_SPEED == 5
PC_SPEED == 5
COMBAT_DISTANCE == 15
TURN_DURATION == 1
MsPerSecond == 1000
InitialHp == 100

NULL == "null"
CAMERA == "camera"

\* Insertion order of the two maps (the order of worldConfig's entities).
PcOrder == <<"p1", "p2", "a">>
NpcOrder == <<"n1", "n2", "b">>
PcIds == {PcOrder[i] : i \in 1..Len(PcOrder)}
NpcIds == {NpcOrder[i] : i \in 1..Len(NpcOrder)}

\* Frame times offered to animate, in milliseconds.
Deltas == {600, 1000}

\* types.ts defaultAttackDefinition, the one attack of defaultWeaponDefinition
defaultAttackDefinition == [id |-> "defaultAttack", damage |-> 10, range |-> 20]

\* weapon.attacks of every actor (world configuration): the attacks reach
\* across the whole world.
Attacks(id) ==
    IF id \in {"p1", "p2"}
    THEN <<[id |-> "rifle", damage |-> 120, range |-> 40]>>
    ELSE IF id \in {"n1", "n2"}
    THEN <<[id |-> "gun", damage |-> 60, range |-> 40]>>
    ELSE IF id = "a"
    THEN <<defaultAttackDefinition>>
    ELSE <<[id |-> "scenarioAttack", damage |-> 25, range |-> 20]>>

\* "null" as a value of type Attack
NoAttack == [id |-> NULL, damage |-> 0, range |-> 0]

\* World configurations (worldConfig.json): who is placed where.  p2 stands
\* exactly COMBAT_DISTANCE from n1; n2 stands within, or exactly at,
\* COMBAT_DISTANCE from n1 and far from every controllable actor.  In the
\* last world p1 starts within COMBAT_DISTANCE of n2 alone and can walk to
\* within COMBAT_DISTANCE of n1.
Worlds ==
    { [pcs |-> [p \in {"p1", "p2"} |-> IF p = "p1" THEN 0 ELSE 2],
       npcs |-> [n \in {"n1"} |-> 17]],
      [pcs |-> [p \in {"p1", "p2"} |-> IF p = "p1" THEN 0 ELSE -6],
       npcs |-> [n \in {"n1"} |-> 30]],
      [pcs |-> [p \in {"a"} |-> 0],
       npcs |-> [n \in {"b"} |-> 10]],
      [pcs |-> [p \in {"p1"} |-> 0],
       npcs |-> [n \in {"n1", "n2"} |-> IF n = "n1" THEN 17 ELSE 30]],
      [pcs |-> [p \in {"p1"} |-> 0],
       npcs |-> [n \in {"n1", "n2"} |-> IF n = "n1" THEN 17 ELSE 32]],
      [pcs |-> [p \in {"p1"} |-> 0],
       npcs |-> [n \in {"n1", "n2"} |-> IF n = "n1" THEN 17 ELSE -12]] }

\* What the crosshair can pick: a hostile actor, a controllable actor, nothing.
Picks == {"n1", "n2", "b", "p1", NULL}

Abs(x) == IF x < 0 THEN -x ELSE x
Sign(x) == IF x < 0 THEN -1 ELSE IF x > 0 THEN 1 ELSE 0

\* THREE.Vector3.distanceTo / distanceToSquared on the line
DistanceTo(a, b) == Abs(a - b)
DistanceToSquared(a, b) == (a - b) * (a - b)

\* Seconds-scaled displacement speed * delta, delta in ms
Displacement(speed, d) == (speed * d) \div MsPerSecond

InitialState(pos) ==
    [position |-> pos, isWalking |-> FALSE, hp |-> InitialHp, currentTargetId |-> NULL]

NoResult == [updatedCombatants |-> {}, combatShouldEnd |-> FALSE,
             defeatedNpcIds |-> <<>>, shotEvents |-> <<>>, returned |-> FALSE]

NoTurn == [resolved |-> FALSE, attacker |-> NULL, target |-> NULL,
           damage |-> 0, hpBefore |-> 0, accumulated |-> 0,
           orderBefore |-> <<>>, indexBefore |-> 0,
           orderAfter |-> <<>>, indexAfter |-> 0, wanted |-> NULL,
           walking |-> {}]

\* One run of the turn clock: the timer, the time fed to it, the turns it
\* resolved, and whether its last tick resolved one.
NoRun == [timer |-> 0, elapsed |-> 0, turns |-> 0, resolved |-> FALSE]
NoPacing == [a |-> NoRun, b |-> NoRun]

\* One call of getBestAttack and the damage applied after it: the attacker's
\* weapon.attacks, the squared distance, the target's hp; then the damage and
\* the target's hp after the hit.
NoProbe == [attacks |-> <<>>, distanceSq |-> 0, hp |-> 0,
            damage |-> 0, hpAfter |-> 0, done |-> FALSE]

\* The actor of the movement scene: its EntityState, the keys held, whether
\* it is the controlled actor, where its worldAABB was last refreshed, and
\* a log of the last tick (history): what ran, the delta, the facing, the
\* intent, whether the jump logic fired, which axes were reverted, and the
\* parity of the frame count.
NoMover == [position |-> <<0, 0, 0>>, velocityY |-> 0, isGrounded |-> TRUE,
            isWalking |-> FALSE, canJump |-> FALSE, moveForward |-> FALSE,
            controlled |-> FALSE, box |-> <<0, 0, 0>>,
            last |-> [kind |-> "none", d |-> 0, heading |-> <<0, 0>>,
                      intent |-> FALSE, jumped |-> FALSE,
                      reverted |-> {}, frame |-> 0]]

InitIn(worlds) ==
    /\ \E world \in worlds :
        /\ pcs = [p \in DOMAIN world.pcs |-> InitialState(world.pcs[p])]
        /\ npcs = [n \in DOMAIN world.npcs |-> InitialState(world.npcs[n])]
    /\ controlledTargetId = CAMERA
    /\ moveForward = FALSE
    /\ isInCombat = FALSE
    /\ combatants = {}
    /\ turnOrder = <<>>
    /\ currentTurnIndex = 0
    /\ turnTimer = 0
    /\ phase = "frame"
    /\ delta = 0
    /\ combatResult = NoResult
    /\ bullets = <<>>
    /\ turn = NoTurn
    /\ started = {}
    /\ follow = {}
    /\ sessionTurns = 0
    \* entities.ts:326-327, 342-343: the box is taken from the mesh as placed
    /\ staticCollidables = [id \in DOMAIN pcs \cup DOMAIN npcs |->
                                IF id \in DOMAIN pcs THEN pcs[id].position
                                ELSE npcs[id].position]

InitGame == InitIn(Worlds)

Init ==
    /\ InitGame
    /\ pacing = NoPacing
    /\ probe = NoProbe
    /\ mover = NoMover

HasState(id) == id \in DOMAIN pcs \/ id \in DOMAIN npcs
\* pcs.get(id) || npcs.get(id)
StateOf(id) == IF id \in DOMAIN pcs THEN pcs[id] ELSE npcs[id]

\* Iteration order of a Map: insertion order of the keys still present.
PcsKeys == SelectSeq(PcOrder, LAMBDA id : id \in DOMAIN pcs)
NpcsKeys == SelectSeq(NpcOrder, LAMBDA id : id \in DOMAIN npcs)

---------------------------------------------------------------------------
\* Input events (between frames)

KeyDownForward ==
    /\ phase = "frame"
    /\ UNCHANGED <<aux, staticCollidables>>
    /\ moveForward' = TRUE
    /\ UNCHANGED <<pcs, npcs, controlledTargetId, isInCombat, combatants, turnOrder,
                   currentTurnIndex, turnTimer, phase, delta, combatResult, bullets,
                   turn, started, follow, sessionTurns>>

KeyUpForward ==
    /\ phase = "frame"
    /\ UNCHANGED <<aux, staticCollidables>>
    /\ moveForward' = FALSE
    /\ UNCHANGED <<pcs, npcs, controlledTargetId, isInCombat, combatants, turnOrder,
                   currentTurnIndex, turnTimer, phase, delta, combatResult, bullets,
                   turn, started, follow, sessionTurns>>

\* Game.resetMovementAndAnimationState: the entity's new state map
ResetWalking(entityIdToReset) ==
    IF entityIdToReset # CAMERA /\ entityIdToReset \in DOMAIN pcs
    THEN [pcs EXCEPT ![entityIdToReset].isWalking = FALSE]
    ELSE pcs

\* keydown Backquote
KeyBackquote ==
    /\ phase = "frame"
    /\ UNCHANGED <<aux, staticCollidables>>
    /\ moveForward' = FALSE
    /\ pcs' = ResetWalking(controlledTargetId)
    /\ controlledTargetId' = CAMERA
    /\ UNCHANGED <<npcs, isInCombat, combatants, turnOrder, currentTurnIndex,
                   turnTimer, phase, delta, combatResult, bullets, turn, started, follow, sessionTurns>>

\* a variant in which taking control of another actor also leaves the session
KeyDigitDisengages(pcIndex) ==
    /\ phase = "frame"
    /\ UNCHANGED <<aux, staticCollidables>>
    /\ pcIndex \in 1..Len(PcsKeys)
    /\ controlledTargetId # PcsKeys[pcIndex]
    /\ moveForward' = FALSE
    /\ pcs' = ResetWalking(controlledTargetId)
    /\ controlledTargetId' = PcsKeys[pcIndex]
    /\ isInCombat' = FALSE
    /\ combatants' = {}
    /\ UNCHANGED <<npcs, turnOrder, currentTurnIndex, turnTimer, phase, delta,
                   combatResult, bullets, turn, started, follow, sessionTurns>>

\* keydown Digit1..Digit9
KeyDigit(pcIndex) ==
    /\ phase = "frame"
    /\ UNCHANGED <<aux, staticCollidables>>
    /\ pcIndex <= Cardinality(DOMAIN pcs)
    /\ pcIndex \in 1..Len(PcsKeys)
    /\ LET newTargetId == PcsKeys[pcIndex] IN
       /\ controlledTargetId # newTargetId
       /\ moveForward' = FALSE
       /\ pcs' = ResetWalking(controlledTargetId)
       /\ controlledTargetId' = newTargetId
    /\ UNCHANGED <<npcs, isInCombat, combatants, turnOrder, currentTurnIndex,
                   turnTimer, phase, delta, combatResult, bullets, turn, started, follow, sessionTurns>>

\* click on an entry of the control list (free camera or a controllable actor)
ClickControlList(id) ==
    /\ phase = "frame"
    /\ id \in DOMAIN pcs \cup {CAMERA}
    /\ UNCHANGED <<aux, staticCollidables>>
    /\ controlledTargetId' = id
    /\ UNCHANGED <<pcs, npcs, moveForward, isInCombat, combatants, turnOrder,
                   currentTurnIndex, turnTimer, phase, delta, combatResult, bullets,
                   turn, started, follow, sessionTurns>>

\* a variant without the test that the picked entity is a hostile actor
PickedTargetAny(pick) == pick

\* a variant that accepts any picked entity but the controlled actor itself
PickedTargetNotSelf(pick) ==
    IF pick # NULL /\ pick # controlledTargetId THEN pick ELSE NULL

\* Game.onDocumentMouseDown with the pick at the crosshair: an entity id or NULL
PickedTarget(pick) ==
    IF pick # NULL /\ pick \in DOMAIN npcs /\ pick # controlledTargetId
    THEN pick
    ELSE NULL

MouseDown(pick) ==
    /\ phase = "frame"
    /\ UNCHANGED <<aux, staticCollidables>>
    /\ controlledTargetId # CAMERA
    /\ controlledTargetId \in DOMAIN pcs
    /\ pcs' = [pcs EXCEPT ![controlledTargetId].currentTargetId = PickedTarget(pick)]
    /\ UNCHANGED <<npcs, controlledTargetId, moveForward, isInCombat, combatants,
                   turnOrder, currentTurnIndex, turnTimer, phase, delta, combatResult,
                   bullets, turn, started, follow, sessionTurns>>

---------------------------------------------------------------------------
\* Game.animate: the order of the calls in its body.  "frame" is the point
\* between two frames; each other name is a call about to be made.

\* updateMovement, then checkCombatEngagement, updateCompanionPCMovement,
\* updateNonControlledEntityPhysics for every actor that is neither
\* controlled nor a combatant, updateCombatLogic, and the removal of the
\* defeated (main.ts:968-1045)
StepAfter(step) ==
    CASE step = "frame" -> "engage"
      [] step = "engage" -> "companion"
      [] step = "companion" -> "physics"
      [] step = "physics" -> "combat"
      [] step = "combat" -> "remove"
      [] OTHER -> "frame"

---------------------------------------------------------------------------
\* Game.animate, step 1: the frame's delta, and updateMovement for the
\* controlled actor

\* updateMovement: collision of the candidate x against the static volumes,
\* the two walls and every box of the index but the actor's own; a blocked
\* axis is reverted
ResolveX(original, candidate, entityId) ==
    IF \/ candidate < 0
       \/ candidate > MaxPos
       \/ \E name \in DOMAIN staticCollidables \ {entityId} :
                staticCollidables[name] = candidate
    THEN original ELSE candidate

\* updateMovement: isWalking as set from the intent and the grounded flag
WalkingFromIntent(intent, grounded) == intent /\ grounded

UpdateMovement(d, entityId, dir) ==
    LET entityState == pcs[entityId]
        intendedMove == IF moveForward THEN dir * Displacement(PC_SPEED, d) ELSE 0
    IN [pcs EXCEPT ![entityId] =
            [entityState EXCEPT
                !.isWalking = WalkingFromIntent(moveForward, TRUE),
                !.position = ResolveX(entityState.position,
                                      entityState.position + intendedMove,
                                      entityId)]]

\* a variant that refreshes no box
RefreshedBoxNever(boxes, entityId, position) == boxes

\* "entityObject.userData.worldAABB.setFromObject(entityObject)" at the end
\* of updateMovement
RefreshedBox(boxes, entityId, position) ==
    [boxes EXCEPT ![entityId] = position]

\* the first step of a frame whose delta is one of deltas
AnimateMoveIn(deltas) ==
    /\ phase = "frame"
    /\ UNCHANGED aux
    /\ \E d \in deltas, dir \in {-1, 1} :
        /\ delta' = d
        /\ pcs' = IF controlledTargetId # CAMERA /\ controlledTargetId \in DOMAIN pcs
                  THEN UpdateMovement(d, controlledTargetId, dir)
                  ELSE pcs
    /\ staticCollidables' =
            IF controlledTargetId # CAMERA /\ controlledTargetId \in DOMAIN pcs
            THEN RefreshedBox(staticCollidables, controlledTargetId,
                              pcs'[controlledTargetId].position)
            ELSE staticCollidables
    /\ phase' = StepAfter("frame")
    /\ UNCHANGED <<npcs, controlledTargetId, moveForward, isInCombat, combatants,
                   turnOrder, currentTurnIndex, turnTimer, combatResult, bullets,
                   turn, started, follow, sessionTurns>>

AnimateMove == AnimateMoveIn(Deltas)

---------------------------------------------------------------------------
\* Game.animate, step 2: checkCombatEngagement

\* a variant that lets the boundary distance engage
WithinCombatDistanceInclusive(distance) == distance <= COMBAT_DISTANCE

\* the comparison of checkCombatEngagement: "distance < COMBAT_DISTANCE"
WithinCombatDistance(distance) == distance < COMBAT_DISTANCE

\* The nested loops over pcs.values() and npcs.values(): the first pair, in
\* map order, within the combat distance; <<>> if there is none.
RECURSIVE FirstEngagedNpc(_, _)
FirstEngagedNpc(pcId, j) ==
    IF j > Len(NpcsKeys) THEN NULL
    ELSE IF WithinCombatDistance(DistanceTo(pcs[pcId].position,
                                            npcs[NpcsKeys[j]].position))
         THEN NpcsKeys[j]
         ELSE FirstEngagedNpc(pcId, j + 1)

RECURSIVE FirstEngagedPair(_)
FirstEngagedPair(i) ==
    IF i > Len(PcsKeys) THEN <<>>
    ELSE IF FirstEngagedNpc(PcsKeys[i], 1) # NULL
         THEN <<PcsKeys[i], FirstEngagedNpc(PcsKeys[i], 1)>>
         ELSE FirstEngagedPair(i + 1)

\* a variant that pulls every other hostile actor in, whatever its distance
NpcsNearEngagedAll(engagedNPC) == DOMAIN npcs \ {engagedNPC}

\* Step 3 of the engagement: the other hostile actors near the engaged one
NpcsNearEngaged(engagedNPC) ==
    {other \in DOMAIN npcs \ {engagedNPC} :
        WithinCombatDistance(DistanceTo(npcs[other].position,
                                        npcs[engagedNPC].position))}

EngagedCombatants(engagedNPC) ==
    DOMAIN pcs \cup {engagedNPC} \cup NpcsNearEngaged(engagedNPC)

\* a variant in which the sort may repeat an id and lose another
OrdersWithRepeats(S) == [1..Cardinality(S) -> S]

\* All orders of a set of ids: what the random comparator sort of startCombat
\* can produce
Orders(S) ==
    {seq \in [1..Cardinality(S) -> S] : \A a \in S : \E i \in 1..Cardinality(S) : seq[i] = a}

\* a variant that hands the first turn to the last of the order
TurnIndexAtStartLast(order) == Len(order) - 1

\* startCombat: "currentTurnIndex = 0", whatever the order drawn
TurnIndexAtStart(order) == 0

\* startCombat: "turnTimer = 0"
TimerAtStart == 0

\* a variant without the early return
EngagementActsAlways == TRUE

\* "if (this.isInCombat) return"
EngagementActs == ~isInCombat

CheckCombatEngagement ==
    /\ phase = "engage"
    /\ UNCHANGED <<aux, staticCollidables>>
    /\ phase' = StepAfter("engage")
    /\ \/ /\ ~EngagementActs
          /\ UNCHANGED <<pcs, moveForward, isInCombat, combatants, turnOrder,
                         currentTurnIndex, turnTimer, started, follow, sessionTurns>>
       \/ /\ EngagementActs
          /\ FirstEngagedPair(1) = <<>>
          /\ UNCHANGED <<pcs, moveForward, isInCombat, combatants, turnOrder,
                         currentTurnIndex, turnTimer, started, follow, sessionTurns>>
       \/ /\ EngagementActs
          /\ FirstEngagedPair(1) # <<>>
          /\ LET engagedNPC == FirstEngagedPair(1)[2]
                 joined == EngagedCombatants(engagedNPC)
             IN /\ isInCombat' = TRUE
                /\ moveForward' = FALSE
                /\ pcs' = [p \in DOMAIN pcs |-> [pcs[p] EXCEPT !.isWalking = FALSE]]
                /\ combatants' = joined
                /\ started' = joined
                \* startCombat
                /\ \E order \in Orders(joined) :
                        /\ turnOrder' = order
                        /\ currentTurnIndex' = TurnIndexAtStart(order)
                /\ turnTimer' = TimerAtStart
                /\ sessionTurns' = 0
                /\ UNCHANGED follow
    /\ UNCHANGED <<npcs, controlledTargetId, delta, combatResult, bullets, turn>>

---------------------------------------------------------------------------
\* Game.animate, step 3: updateCompanionPCMovement

\* "distanceToLeader > COMPANION_FOLLOW_DISTANCE"
StartsFollowing(distanceToLeader) == distanceToLeader > COMPANION_FOLLOW_DISTANCE

\* a variant that never stops a pursuit
StopsFollowingNever(distanceToLeader) == FALSE

\* a variant that stops at the lower threshold itself
StopsFollowingAtThreshold(distanceToLeader) ==
    distanceToLeader <= COMPANION_STOP_FOLLOW_DISTANCE

\* "distanceToLeader < COMPANION_STOP_FOLLOW_DISTANCE"
StopsFollowing(distanceToLeader) == distanceToLeader < COMPANION_STOP_FOLLOW_DISTANCE

\* One companion's state after the hysteresis rule
FollowLeader(companionState, leaderPos, d) ==
    LET distanceToLeader == DistanceTo(companionState.position, leaderPos)
        moveStep == Sign(leaderPos - companionState.position)
                        * Displacement(COMPANION_FOLLOW_SPEED, d)
    IN IF companionState.isWalking
       THEN IF StopsFollowing(distanceToLeader)
            THEN [companionState EXCEPT !.isWalking = FALSE]
            ELSE [companionState EXCEPT !.position = @ + moveStep]
       ELSE IF StartsFollowing(distanceToLeader)
            THEN [companionState EXCEPT !.isWalking = TRUE, !.position = @ + moveStep]
            ELSE companionState

\* the controllable actors the loop does not skip: not the controlled one,
\* not a combatant
IdleCompanions == {p \in DOMAIN pcs : p # controlledTargetId /\ p \notin combatants}

UpdateCompanionPCMovement ==
    /\ phase = "companion"
    /\ UNCHANGED <<aux, staticCollidables>>
    /\ phase' = StepAfter("companion")
    /\ \/ /\ (controlledTargetId = CAMERA \/ controlledTargetId \notin DOMAIN pcs)
          /\ UNCHANGED <<pcs, follow>>
       \/ /\ controlledTargetId # CAMERA
          /\ controlledTargetId \in DOMAIN pcs
          /\ pcs' = [p \in DOMAIN pcs |->
                        IF p \in IdleCompanions
                        THEN FollowLeader(pcs[p], pcs[controlledTargetId].position, delta)
                        ELSE pcs[p]]
          /\ follow' = {[id |-> p,
                         distanceToLeader |->
                            DistanceTo(pcs[p].position, pcs[controlledTargetId].position),
                         wasWalking |-> pcs[p].isWalking] : p \in IdleCompanions}
    /\ UNCHANGED <<npcs, controlledTargetId, moveForward, isInCombat, combatants,
                   turnOrder, currentTurnIndex, turnTimer, delta, combatResult,
                   bullets, turn, started, sessionTurns>>

---------------------------------------------------------------------------
\* Game.animate, "Update physics for non-controlled, non-combat entities":
\* updateNonControlledEntityPhysics writes position.y, velocity.y and
\* isGrounded of the actor and nothing else.  The actors of these worlds
\* stand on the ground (y = 0, velocity.y = 0, isGrounded), where gravity is
\* not applied and the terrain test puts y back to 0: the three fields stay
\* as they are, and they are not part of the state of these worlds.  The
\* routine does not refresh worldAABB (its last line is commented out).
UpdateNonControlledEntityPhysics ==
    /\ phase = "physics"
    /\ UNCHANGED <<aux, staticCollidables>>
    /\ phase' = StepAfter("physics")
    /\ UNCHANGED <<pcs, npcs, controlledTargetId, moveForward, isInCombat, combatants,
                   turnOrder, currentTurnIndex, turnTimer, delta, combatResult,
                   bullets, turn, started, follow, sessionTurns>>

---------------------------------------------------------------------------
\* combat.ts (src/unnamed/part_000): the helpers of updateCombatLogic

TurnDurationMs == TURN_DURATION * MsPerSecond

\* "if (attackerState && attackerState.hp <= 0) turnTimer = TURN_DURATION"
ForcedTimer(timer, attackerKnown, attackerHp) ==
    IF attackerKnown /\ attackerHp <= 0 THEN TurnDurationMs ELSE timer

\* a variant that resolves a turn on any elapsed time
TurnDueAnyTime(timer) == timer > 0

\* "if (turnTimer >= TURN_DURATION)"
TurnDue(timer) == timer >= TurnDurationMs

\* a variant that keeps the excess over the turn duration
TimerAfterTurnCarry(timer) == timer - TurnDurationMs

\* the value turnTimer gets when a turn resolves
TimerAfterTurn(timer) == 0

\* getBestAttack: the loop over weapon.attacks, from attack i on
RECURSIVE BestAttackFrom(_, _, _, _, _)
BestAttackFrom(attacks, i, distanceSq, bestAttack, maxDamage) ==
    IF i > Len(attacks) THEN bestAttack
    ELSE IF distanceSq <= attacks[i].range * attacks[i].range
            /\ attacks[i].damage > maxDamage
         THEN BestAttackFrom(attacks, i + 1, distanceSq, attacks[i], attacks[i].damage)
         ELSE BestAttackFrom(attacks, i + 1, distanceSq, bestAttack, maxDamage)

\* a variant that takes the first attack in range instead of the strongest
GetBestAttackFirst(attacks, distanceSq) ==
    LET inRange == {i \in 1..Len(attacks) :
                        distanceSq <= attacks[i].range * attacks[i].range}
    IN IF inRange = {} THEN NoAttack
       ELSE attacks[CHOOSE i \in inRange : \A j \in inRange : i <= j]

GetBestAttack(attacks, distanceSq) ==
    IF Len(attacks) = 0 THEN NoAttack
    ELSE BestAttackFrom(attacks, 1, distanceSq, NoAttack, -1)

\* a variant in which no attack hurts
DamageOfNone(bestAttack) == 0

\* a variant that always deals the fallback damage
DamageOfFallback(bestAttack) == 1

\* "bestAttack?.damage ?? 1"
DamageOf(bestAttack) == IF bestAttack.id = NULL THEN 1 ELSE bestAttack.damage

\* a variant in which a hit restores what it should take
HpAfterDamageRestoring(hp, damage) == hp + damage

\* a variant without the clamp at 0
HpAfterDamageUnclamped(hp, damage) == hp - damage

\* "targetState.hp -= damage; if (targetState.hp <= 0) targetState.hp = 0"
HpAfterDamage(hp, damage) ==
    IF hp - damage <= 0 THEN 0 ELSE hp - damage

\* a variant without the test that the candidate has hp left
RECURSIVE ClosestFromAnyHp(_, _, _, _, _, _)
ClosestFromAnyHp(keys, map, i, fromPos, bestId, minDistanceSq) ==
    IF i > Len(keys) THEN bestId
    ELSE LET id == keys[i]
             distanceSq == DistanceToSquared(fromPos, map[id].position)
         IN IF id \in combatants /\ (bestId = NULL \/ distanceSq < minDistanceSq)
            THEN ClosestFromAnyHp(keys, map, i + 1, fromPos, id, distanceSq)
            ELSE ClosestFromAnyHp(keys, map, i + 1, fromPos, bestId, minDistanceSq)

\* The forEach loops that pick the closest live combatant of a map: keys in
\* map order, strict "<" keeps the first of equally distant ones.
RECURSIVE ClosestFrom(_, _, _, _, _, _)
ClosestFrom(keys, map, i, fromPos, bestId, minDistanceSq) ==
    IF i > Len(keys) THEN bestId
    ELSE LET id == keys[i]
             distanceSq == DistanceToSquared(fromPos, map[id].position)
         IN IF id \in combatants /\ map[id].hp > 0
               /\ (bestId = NULL \/ distanceSq < minDistanceSq)
            THEN ClosestFrom(keys, map, i + 1, fromPos, id, distanceSq)
            ELSE ClosestFrom(keys, map, i + 1, fromPos, bestId, minDistanceSq)

ClosestNpc(fromPos) == ClosestFrom(NpcsKeys, npcs, 1, fromPos, NULL, 0)
ClosestPc(fromPos) == ClosestFrom(PcsKeys, pcs, 1, fromPos, NULL, 0)

\* a variant without the test that the target is a combatant
TargetValidAnyHostile(targetId) ==
    /\ HasState(targetId)
    /\ StateOf(targetId).hp > 0
    /\ targetId \in DOMAIN npcs

\* validity test of a controllable actor's currentTargetId
TargetValid(targetId) ==
    /\ HasState(targetId)
    /\ StateOf(targetId).hp > 0
    /\ targetId \in combatants
    /\ targetId \in DOMAIN npcs

\* a variant that leaves a target that failed the test in place
TargetAfterCheckKept(wanted, valid) == wanted

\* "targetId = attackerState.currentTargetId" or
\* "attackerState.currentTargetId = null": the field after the test
TargetAfterCheck(wanted, valid) == IF valid THEN wanted ELSE NULL

\* a variant that takes no defeated target out before the session ends
RemovedOnDefeatNone(targetId) == FALSE

\* a variant that takes any defeated target out, controllable ones too
RemovedOnDefeatAny(targetId) == TRUE

\* "if (npcs.has(targetId))": who leaves the session when brought to 0 hp
RemovedOnDefeat(targetId) == targetId \in DOMAIN npcs

\* Array.indexOf, 0-based, -1 when absent
IndexOf(seq, id) ==
    IF \E i \in 1..Len(seq) : seq[i] = id
    THEN (CHOOSE i \in 1..Len(seq) : seq[i] = id /\ \A j \in 1..(i - 1) : seq[j] # id) - 1
    ELSE -1

\* a variant that leaves the defeated actor in the array
SpliceNothing(seq, index) == seq

\* Array.splice(index, 1), 0-based index
Splice(seq, index) ==
    [i \in 1..(Len(seq) - 1) |-> IF i <= index THEN seq[i] ELSE seq[i + 1]]

\* a variant that leaves the index alone after the splice
AdjustedTurnIndexNever(indexInTurnOrder, index) == index

\* "if (indexInTurnOrder <= currentTurnIndex) currentTurnIndex--"
AdjustedTurnIndex(indexInTurnOrder, index) ==
    IF indexInTurnOrder <= index THEN index - 1 ELSE index

\* a variant that advances without wrapping around
AdvancedTurnIndexNoWrap(index, length) == index + 1

\* "currentTurnIndex = (currentTurnIndex + 1) % turnOrder.length"
AdvancedTurnIndex(index, length) == (index + 1) % length

\* a variant that ends the session only on the controllable side's defeat
CombatEndsPcsOnly(pcMap, npcMap, members) ==
    {id \in DOMAIN pcMap : id \in members /\ pcMap[id].hp > 0} = {}

\* the end condition on the maps after the turn
CombatEnds(pcMap, npcMap, members) ==
    LET alivePcs == {id \in DOMAIN pcMap : id \in members /\ pcMap[id].hp > 0}
        aliveNpcs == {id \in DOMAIN npcMap : id \in members /\ npcMap[id].hp > 0}
    IN alivePcs = {} \/ aliveNpcs = {}

\* at the end: every hostile actor at 0 hp not yet in the list is appended
DefeatedAtEnd(npcMap, defeatedThisTurn) ==
    defeatedThisTurn \o
    SelectSeq(NpcsKeys, LAMBDA id : npcMap[id].hp <= 0
                                    /\ \A k \in 1..Len(defeatedThisTurn) :
                                            defeatedThisTurn[k] # id)

\* the shotEvents field of the value returned after a resolved turn
ReturnedShotEvents(ends, shotEventsThisTurn) ==
    IF ends THEN <<>> ELSE shotEventsThisTurn

---------------------------------------------------------------------------
\* Game.animate, step 4: updateCombatLogic and the handling of its result
\* up to "this.combatants.clear()"

\* a variant that leaves the former combatants walking
StoppedAtEndNobody(map, members) == map

\* "this.combatants.forEach(... entityState.isWalking = false ...)" on one map
StoppedAtEnd(map, members) ==
    [id \in DOMAIN map |->
        IF id \in members THEN [map[id] EXCEPT !.isWalking = FALSE] ELSE map[id]]

\* What animate does with the returned value: spawn the bullets, and end the
\* session when asked to.
HandleResult(result, pcMap, npcMap, order, index) ==
    /\ combatResult' = result
    /\ bullets' = result.shotEvents
    /\ IF result.combatShouldEnd
       THEN /\ isInCombat' = FALSE
            \* endCombat
            /\ turnOrder' = <<>>
            /\ currentTurnIndex' = 0
            /\ pcs' = StoppedAtEnd(pcMap, result.updatedCombatants)
            /\ npcs' = StoppedAtEnd(npcMap, result.updatedCombatants)
            /\ combatants' = {}
       ELSE /\ isInCombat' = isInCombat
            /\ turnOrder' = order
            /\ currentTurnIndex' = index
            /\ pcs' = pcMap
            /\ npcs' = npcMap
            /\ combatants' = result.updatedCombatants

\* log: the ids whose isWalking is set in the maps updateCombatLogic leaves
\* behind, before animate handles the returned value
WalkingIn(pcMap, npcMap) ==
    {id \in DOMAIN pcMap : pcMap[id].isWalking}
        \cup {id \in DOMAIN npcMap : npcMap[id].isWalking}

\* a variant that lets a walking actor attack
TakesTurnWalking(attackerState) == attackerState.hp > 0

\* "attackerState.hp > 0 && !attackerState.isWalking": the actor whose turn
\* it is acts; otherwise the turn is consumed with no action
TakesTurn(attackerState) == attackerState.hp > 0 /\ ~attackerState.isWalking

\* updateCombatLogic when the timer has reached the turn duration
ResolveTurn(accumulated, timer) ==
    LET currentTurnEntityId == turnOrder[currentTurnIndex + 1]
        known == HasState(currentTurnEntityId)
        attackerState == StateOf(currentTurnEntityId)
        acts == known /\ TakesTurn(attackerState)
        attackerIsPC == currentTurnEntityId \in DOMAIN pcs
        wanted == attackerState.currentTargetId
        keepsTarget == acts /\ attackerIsPC /\ wanted # NULL /\ TargetValid(wanted)
        targetId == IF ~acts THEN NULL
                    ELSE IF attackerIsPC
                         THEN IF keepsTarget THEN wanted
                              ELSE ClosestNpc(attackerState.position)
                         ELSE ClosestPc(attackerState.position)
        hits == targetId # NULL /\ HasState(targetId)
        targetState == StateOf(targetId)
        distanceSq == DistanceToSquared(attackerState.position, targetState.position)
        damage == DamageOf(GetBestAttack(Attacks(currentTurnEntityId), distanceSq))
        newHp == HpAfterDamage(targetState.hp, damage)
        pcs1 == IF acts /\ attackerIsPC /\ wanted # NULL
                THEN [pcs EXCEPT ![currentTurnEntityId].currentTargetId =
                                    TargetAfterCheck(wanted, TargetValid(wanted))]
                ELSE pcs
        pcs2 == IF hits /\ targetId \in DOMAIN pcs
                THEN [pcs1 EXCEPT ![targetId].hp = newHp] ELSE pcs1
        npcs2 == IF hits /\ targetId \in DOMAIN npcs
                 THEN [npcs EXCEPT ![targetId].hp = newHp] ELSE npcs
        shotEventsThisTurn ==
            IF hits THEN <<[attackerId |-> currentTurnEntityId, targetId |-> targetId]>>
            ELSE <<>>
        defeatsNpc == hits /\ targetState.hp - damage <= 0 /\ RemovedOnDefeat(targetId)
        defeatedNpcIdsThisTurn == IF defeatsNpc THEN <<targetId>> ELSE <<>>
        members == IF defeatsNpc THEN combatants \ {targetId} ELSE combatants
        indexInTurnOrder == IndexOf(turnOrder, targetId)
        removes == defeatsNpc /\ indexInTurnOrder > -1
        order1 == IF removes THEN Splice(turnOrder, indexInTurnOrder) ELSE turnOrder
        index1 == IF removes THEN AdjustedTurnIndex(indexInTurnOrder, currentTurnIndex)
                  ELSE currentTurnIndex
        index2 == AdvancedTurnIndex(index1, Len(order1))
        ends == CombatEnds(pcs2, npcs2, members)
        result == [updatedCombatants |-> members,
                   combatShouldEnd |-> ends,
                   defeatedNpcIds |-> IF ends
                                      THEN DefeatedAtEnd(npcs2, defeatedNpcIdsThisTurn)
                                      ELSE defeatedNpcIdsThisTurn,
                   shotEvents |-> ReturnedShotEvents(ends, shotEventsThisTurn),
                   returned |-> TRUE]
    IN /\ turnTimer' = TimerAfterTurn(timer)
       /\ turn' = [resolved |-> TRUE,
                   attacker |-> currentTurnEntityId,
                   target |-> IF hits THEN targetId ELSE NULL,
                   damage |-> IF hits THEN damage ELSE 0,
                   hpBefore |-> IF hits THEN targetState.hp ELSE 0,
                   accumulated |-> accumulated,
                   orderBefore |-> turnOrder,
                   indexBefore |-> currentTurnIndex,
                   orderAfter |-> order1,
                   indexAfter |-> index2,
                   wanted |-> IF acts /\ attackerIsPC THEN wanted ELSE NULL,
                   walking |-> WalkingIn(pcs2, npcs2)]
       /\ sessionTurns' = IF sessionTurns < MaxTurns THEN sessionTurns + 1 ELSE MaxTurns
       /\ HandleResult(result, pcs2, npcs2, order1, index2)

UpdateCombatLogic ==
    IF Len(turnOrder) = 0
    THEN /\ UNCHANGED <<turnTimer, sessionTurns>>
         /\ turn' = [turn EXCEPT !.walking = WalkingIn(pcs, npcs)]
         /\ HandleResult([updatedCombatants |-> combatants, combatShouldEnd |-> TRUE,
                          defeatedNpcIds |-> <<>>, shotEvents |-> <<>>,
                          returned |-> TRUE],
                         pcs, npcs, turnOrder, currentTurnIndex)
    ELSE LET accumulated == turnTimer + delta
             currentTurnEntityId == turnOrder[currentTurnIndex + 1]
             known == HasState(currentTurnEntityId)
             timer == ForcedTimer(accumulated, known,
                                  IF known THEN StateOf(currentTurnEntityId).hp ELSE 0)
         IN IF TurnDue(timer)
            THEN ResolveTurn(accumulated, timer)
            ELSE /\ turnTimer' = timer
                 /\ turn' = [NoTurn EXCEPT !.accumulated = accumulated,
                                            !.walking = WalkingIn(pcs, npcs)]
                 /\ UNCHANGED sessionTurns
                 /\ HandleResult([updatedCombatants |-> combatants,
                                  combatShouldEnd |-> FALSE,
                                  defeatedNpcIds |-> <<>>, shotEvents |-> <<>>,
                                  returned |-> TRUE],
                                 pcs, npcs, turnOrder, currentTurnIndex)

AnimateCombat ==
    /\ phase = "combat"
    /\ UNCHANGED <<aux, staticCollidables>>
    /\ \/ /\ isInCombat
          /\ UpdateCombatLogic
          /\ phase' = StepAfter("combat")
          /\ UNCHANGED <<controlledTargetId, moveForward, delta, started, follow>>
       \/ /\ ~isInCombat
          /\ phase' = "frame"
          /\ follow' = {}
          /\ UNCHANGED <<pcs, npcs, controlledTargetId, moveForward, isInCombat,
                         combatants, turnOrder, currentTurnIndex, turnTimer, delta,
                         combatResult, bullets, turn, started, sessionTurns>>

---------------------------------------------------------------------------
\* Game.animate, step 5: removal of the defeated hostile actors; the frame's
\* locals go out of scope

DefeatedSet == {combatResult.defeatedNpcIds[k] : k \in 1..Len(combatResult.defeatedNpcIds)}

\* a variant that leaves the defeated in the maps
RemovedNone == {}

\* the entities removed: those of the defeated list that still have a mesh
Removed == DefeatedSet \cap DOMAIN npcs

AnimateRemove ==
    /\ phase = "remove"
    /\ UNCHANGED aux
    /\ npcs' = [n \in DOMAIN npcs \ Removed |-> npcs[n]]
    /\ staticCollidables' = [name \in DOMAIN staticCollidables \ Removed |->
                                staticCollidables[name]]
    /\ combatants' = combatants \ Removed
    /\ combatResult' = NoResult
    /\ bullets' = <<>>
    /\ turn' = NoTurn
    /\ started' = {}
    /\ follow' = {}
    /\ sessionTurns' = IF isInCombat THEN sessionTurns ELSE 0
    /\ phase' = StepAfter("remove")
    /\ UNCHANGED <<pcs, controlledTargetId, moveForward, isInCombat, turnOrder,
                   currentTurnIndex, turnTimer, delta>>

---------------------------------------------------------------------------
Next ==
    \/ KeyDownForward
    \/ KeyUpForward
    \/ KeyBackquote
    \/ \E pcIndex \in 1..Len(PcOrder) : KeyDigit(pcIndex)
    \/ \E id \in PcIds \cup {CAMERA} : ClickControlList(id)
    \/ \E pick \in Picks : MouseDown(pick)
    \/ AnimateMove
    \/ CheckCombatEngagement
    \/ UpdateCompanionPCMovement
    \/ UpdateNonControlledEntityPhysics
    \/ AnimateCombat
    \/ AnimateRemove

Spec == Init /\ [][Next]_vars

\* One pass of the body of Game.animate is the six steps in a row.
Tick ==
    \/ AnimateMove
    \/ CheckCombatEngagement
    \/ UpdateCompanionPCMovement
    \/ UpdateNonControlledEntityPhysics
    \/ AnimateCombat
    \/ AnimateRemove

\* Ticks keep occurring: animate re-arms itself with requestAnimationFrame
\* before anything else (main.ts:960), every Deltas value is positive, and
\* no input handler can hold a tick back.
\* The scenario world: one controllable actor against one hostile actor;
\* control goes between the actor and the free camera.
LiveWorlds == {world \in Worlds : "a" \in DOMAIN world.pcs}

InitLive ==
    /\ InitIn(LiveWorlds)
    /\ pacing = NoPacing
    /\ probe = NoProbe
    /\ mover = NoMover

SpecLive == InitLive /\ [][Next]_vars /\ WF_vars(Tick)

\* A world in which a companion on its way to a standing leader comes
\* nearer to a hostile actor than the leader is: p2 walks from -9 to -4 and
\* then past p1, to 1.
OrderWorlds ==
    { [pcs |-> [p \in {"p1", "p2"} |-> IF p = "p1" THEN 0 ELSE -9],
       npcs |-> [n \in {"n1"} |-> 15]] }

InitOrder ==
    /\ InitIn(OrderWorlds)
    /\ pacing = NoPacing
    /\ probe = NoProbe
    /\ mover = NoMover

\* The follow scene (SpecFollow): p1 is the controlled actor and stands, no
\* key is held and control is not switched; p2 starts behind it, beyond the
\* follow distance; the one hostile actor is out of reach of both.  The
\* frames are short enough for a step of the companion to be smaller than
\* the stop distance.
FollowWorlds ==
    { [pcs |-> [p \in {"p1", "p2"} |-> IF p = "p1" THEN 0 ELSE -gap],
       npcs |-> [n \in {"n1"} |-> 30]] : gap \in (COMPANION_FOLLOW_DISTANCE + 1)..MaxGap }

FollowDeltas ==
    {d \in {200, 400, 600, 1000} :
        Displacement(COMPANION_FOLLOW_SPEED, d) < COMPANION_STOP_FOLLOW_DISTANCE}

InitFollow ==
    /\ \E world \in FollowWorlds :
        /\ pcs = [p \in DOMAIN world.pcs |-> InitialState(world.pcs[p])]
        /\ npcs = [n \in DOMAIN world.npcs |-> InitialState(world.npcs[n])]
    /\ controlledTargetId = "p1"
    /\ moveForward = FALSE
    /\ isInCombat = FALSE
    /\ combatants = {}
    /\ turnOrder = <<>>
    /\ currentTurnIndex = 0
    /\ turnTimer = 0
    /\ phase = "frame"
    /\ delta = 0
    /\ combatResult = NoResult
    /\ bullets = <<>>
    /\ turn = NoTurn
    /\ started = {}
    /\ follow = {}
    /\ sessionTurns = 0
    /\ staticCollidables = [id \in DOMAIN pcs \cup DOMAIN npcs |->
                                IF id \in DOMAIN pcs THEN pcs[id].position
                                ELSE npcs[id].position]
    /\ pacing = NoPacing
    /\ probe = NoProbe
    /\ mover = NoMover

\* one pass of the body of Game.animate with a short frame; no session
\* starts in this scene, so that the pass ends with the combat step, which
\* finds no session, and the removal that follows a combat tick is not part
\* of it
TickFollow ==
    \/ AnimateMoveIn(FollowDeltas)
    \/ CheckCombatEngagement
    \/ UpdateCompanionPCMovement
    \/ UpdateNonControlledEntityPhysics
    \/ AnimateCombat

NextFollow ==
    \/ AnimateMoveIn(FollowDeltas)
    \/ CheckCombatEngagement
    \/ UpdateCompanionPCMovement
    \/ UpdateNonControlledEntityPhysics
    \/ AnimateCombat
    \/ \E pick \in Picks : MouseDown(pick)

\* Ticks keep occurring (main.ts:960).
SpecFollow == InitFollow /\ [][NextFollow]_vars /\ WF_vars(TickFollow)

\* The player moves and switches control but picks no target: a pick only
\* sets currentTargetId, which no call before updateCombatLogic reads.
NextOrder ==
    \/ KeyDownForward
    \/ KeyUpForward
    \/ KeyBackquote
    \/ \E pcIndex \in 1..Len(PcOrder) : KeyDigit(pcIndex)
    \/ \E id \in PcIds \cup {CAMERA} : ClickControlList(id)
    \/ Tick

SpecOrder == InitOrder /\ [][NextOrder]_vars

---------------------------------------------------------------------------
\* The turn clock of updateCombatLogic alone, for a live attacker that stays
\* in the rotation: two runs are fed frame times independently.

\* Total time fed to one run (ms).
MaxElapsed == 3000

\* lines 146-158 of updateCombatLogic on one run
ClockTick(run, d) ==
    LET timer == ForcedTimer(run.timer + d, TRUE, InitialHp)
    IN IF TurnDue(timer)
       THEN [timer |-> TimerAfterTurn(timer), elapsed |-> run.elapsed + d,
             turns |-> run.turns + 1, resolved |-> TRUE]
       ELSE [timer |-> timer, elapsed |-> run.elapsed + d,
             turns |-> run.turns, resolved |-> FALSE]

TickA ==
    \E d \in Deltas :
        /\ pacing.a.elapsed + d <= MaxElapsed
        /\ pacing' = [pacing EXCEPT !.a = ClockTick(pacing.a, d)]
        /\ UNCHANGED <<gameVars, probe, mover>>

TickB ==
    \E d \in Deltas :
        /\ pacing.b.elapsed + d <= MaxElapsed
        /\ pacing' = [pacing EXCEPT !.b = ClockTick(pacing.b, d)]
        /\ UNCHANGED <<gameVars, probe, mover>>

NextPacing == TickA \/ TickB

SpecPacing == Init /\ [][NextPacing]_vars

---------------------------------------------------------------------------
\* getBestAttack and the hit that follows it (updateCombatLogic, "if
\* (targetState)" block), on weapons and distances of every shape.

\* Longest weapon.attacks array probed.
MaxAttacks == 2

\* The attacks a weapon definition may list.
AttackPool ==
    { [id |-> "knife", damage |-> 30, range |-> 2],
      [id |-> "pistol", damage |-> 25, range |-> 10],
      [id |-> "rifle", damage |-> 20, range |-> 20],
      defaultAttackDefinition }

\* Squared distances from attacker to target: at, within and beyond the ranges.
ProbeDistancesSq == {0, 4, 5, 100, 400, 401}

\* hp of the target before the hit
ProbeHps == {1, 100}

AttackLists ==
    UNION {[1..n -> AttackPool] : n \in 0..MaxAttacks}

InitAttack ==
    /\ InitGame
    /\ pacing = NoPacing
    /\ mover = NoMover
    /\ \E attacks \in AttackLists, distanceSq \in ProbeDistancesSq, hp \in ProbeHps :
            probe = [attacks |-> attacks, distanceSq |-> distanceSq, hp |-> hp,
                     damage |-> 0, hpAfter |-> hp, done |-> FALSE]

\* "const bestAttack = getBestAttack(...); let damage = bestAttack?.damage ?? 1;
\*  targetState.hp -= damage; if (targetState.hp <= 0) targetState.hp = 0"
Strike ==
    /\ ~probe.done
    /\ LET bestAttack == GetBestAttack(probe.attacks, probe.distanceSq)
           damage == DamageOf(bestAttack)
       IN probe' = [probe EXCEPT !.damage = damage,
                                 !.hpAfter = HpAfterDamage(probe.hp, damage),
                                 !.done = TRUE]
    /\ UNCHANGED <<gameVars, pacing, mover>>

NextAttack == Strike

SpecAttack == InitAttack /\ [][NextAttack]_vars

---------------------------------------------------------------------------
\* The movement resolver alone (SpecMove): one controllable actor in a room
\* with a platform and a beam overhead, in three dimensions.  Lengths are in
\* millimetres, times in milliseconds, speeds in millimetres per second; a
\* vector is <<x, y, z>>.  Of the direction keys only moveForward is kept;
\* the facing (yaw, set from the camera each frame) is an input of the tick,
\* given as the horizontal forward vector it yields, in thousandths.

HERO == "hero"

\* the frame deltas of this scene.  With them the actor moves on a grid of
\* 100 in x and 400 in z, and its heights are whole hundreds away from the
\* floor, from the top of the platform or from the height of a ceiling stop;
\* the side faces of the structures and the landing
\* tolerances around the top of the platform lie off those values, so that
\* no comparison of the resolver is decided by two equal lengths but the one
\* the code itself builds: after a ceiling stop the top of the body box is
\* the underside of the beam, and boxes that touch intersect.
MoveDeltas == {100, 400}

\* forwardMoveVector for the yaws of this scene: <<x, z>> in thousandths
Headings ==
    {<<1000, 0>>, <<-1000, 0>>, <<600, 800>>, <<-600, -800>>}

\* v * delta
Scaled(v, d) == (v * d) \div MsPerSecond

\* THREE.Box3.setFromCenterAndSize
BoxFromCenterAndSize(center, size) ==
    [min |-> [i \in 1..3 |-> center[i] - size[i] \div 2],
     max |-> [i \in 1..3 |-> center[i] + size[i] \div 2]]

\* THREE.Box3.intersectsBox: boxes that touch intersect
IntersectsBox(a, b) ==
    \A i \in 1..3 : ~(b.max[i] < a.min[i] \/ b.min[i] > a.max[i])

\* the structures of the room (worldConfig.json), in the order of the index:
\* four walls around the floor 0..RoomX by 0..RoomZ, a platform along the
\* east wall and a beam above the west end
SceneBoxes ==
    LET far == 2000
        gap == ENTITY_RADIUS + 50
        high == 5000
    IN << [name |-> "west",
           worldAABB |-> [min |-> <<-far, 0, -far>>,
                          max |-> <<-gap, high, RoomZ + far>>]],
          [name |-> "east",
           worldAABB |-> [min |-> <<RoomX + gap, 0, -far>>,
                          max |-> <<RoomX + far, high, RoomZ + far>>]],
          [name |-> "south",
           worldAABB |-> [min |-> <<-far, 0, -far>>,
                          max |-> <<RoomX + far, high, -gap>>]],
          [name |-> "north",
           worldAABB |-> [min |-> <<-far, 0, RoomZ + gap>>,
                          max |-> <<RoomX + far, high, RoomZ + far>>]],
          [name |-> "platform",
           worldAABB |-> [min |-> <<PlatformEdge, 0, -far>>,
                          max |-> <<RoomX + far, PlatformTop, RoomZ + far>>]],
          [name |-> "beam",
           worldAABB |-> [min |-> <<-far, BeamBottom, -far>>,
                          max |-> <<BeamEdge, high, RoomZ + far>>]] >>

\* Game.staticCollidables of the scene: the structures, then the actor
\* (main.ts:90-94).  The actor's worldAABB is what setFromObject measured on
\* its mesh where it stood at the last refresh; its extents follow the limbs
\* and the pose of the mesh, not the collision body, and the entry carries
\* the place of that refresh only: every loop over the index skips the
\* actor's own entry by name before it reads a box, and the scene has no
\* second actor.
CollidablesOf(m) ==
    Append(SceneBoxes, [name |-> HERO, refreshedAt |-> m.box])

\* the first index of a set of indices, 0 if there is none: the entry at
\* which a loop over the index breaks
FirstOf(S) == IF S = {} THEN 0 ELSE CHOOSE k \in S : \A j \in S : k <= j

\* "collidable.name !== entityId && collidable.userData.worldAABB
\*  .intersectsBox(playerAABB)" for some entry of the index
HitsAny(colls, entityId, box) ==
    \E k \in 1..Len(colls) :
        colls[k].name # entityId /\ IntersectsBox(colls[k].worldAABB, box)

\* playerAABB of the horizontal tests: the body, raised by the epsilon
PlayerAABB(x, feetY, z) ==
    BoxFromCenterAndSize(
        <<x, feetY + ENTITY_HEIGHT \div 2 + HorizontalCollisionEpsilon, z>>,
        <<ENTITY_RADIUS * 2, ENTITY_HEIGHT, ENTITY_RADIUS * 2>>)

\* intendedMove for the forward key: <<x, z>>
IntendedMove(intent, heading, d) ==
    IF intent
    THEN <<(heading[1] * PC_SPEED * d) \div MsPerSecond,
           (heading[2] * PC_SPEED * d) \div MsPerSecond>>
    ELSE <<0, 0>>

\* the X axis: "position.x += intendedMove.x", the test at the original z,
\* and the revert
ResolvedX(colls, entityId, original, dx) ==
    IF HitsAny(colls, entityId, PlayerAABB(original[1] + dx, original[2], original[3]))
    THEN original[1]
    ELSE original[1] + dx

\* a variant that tests the Z move from the original x
ResolvedZFromOriginalX(colls, entityId, original, x, dz) ==
    IF HitsAny(colls, entityId, PlayerAABB(original[1], original[2], original[3] + dz))
    THEN original[3]
    ELSE original[3] + dz

\* the Z axis: "position.z += intendedMove.z", the test at the resolved x,
\* and the revert
ResolvedZ(colls, entityId, original, x, dz) ==
    IF HitsAny(colls, entityId, PlayerAABB(x, original[2], original[3] + dz))
    THEN original[3]
    ELSE original[3] + dz

\* a variant that lets an airborne actor jump again
JumpsAnywhere(canJump, entityIsOnGround) == canJump

\* "if (this.canJump && entityIsOnGround)"
Jumps(canJump, entityIsOnGround) == canJump /\ entityIsOnGround

\* a variant that snaps to a surface only from above it
SupportsFromAbove(colls, entityId, feet, feetY, nextFeetY) ==
    {k \in 1..Len(colls) :
        /\ colls[k].name # entityId
        /\ IntersectsBox(colls[k].worldAABB, feet)
        /\ feetY > colls[k].worldAABB.max[2]
        /\ nextFeetY < colls[k].worldAABB.max[2] + SnapAbove}

\* the entries of the index the feet probe of updateMovement can land on
Supports(colls, entityId, feet, feetY, nextFeetY) ==
    {k \in 1..Len(colls) :
        /\ colls[k].name # entityId
        /\ IntersectsBox(colls[k].worldAABB, feet)
        /\ feetY >= colls[k].worldAABB.max[2] - SnapBelow
        /\ nextFeetY < colls[k].worldAABB.max[2] + SnapAbove}

\* the entries of the index a rising head is stopped by
Ceilings(colls, entityId, x, z, originalY, newY) ==
    {k \in 1..Len(colls) :
        /\ colls[k].name # entityId
        /\ IntersectsBox(colls[k].worldAABB,
                         [min |-> <<x - ENTITY_RADIUS, newY, z - ENTITY_RADIUS>>,
                          max |-> <<x + ENTITY_RADIUS, newY + ENTITY_HEIGHT,
                                    z + ENTITY_RADIUS>>])
        /\ newY + ENTITY_HEIGHT > colls[k].worldAABB.min[2]
        /\ colls[k].worldAABB.min[2] > originalY + ENTITY_HEIGHT \div 2}

\* updateMovement from the jump logic to the stores of position.y,
\* velocity.y and isGrounded: <<y, velocity.y, isGrounded>>
VerticalOf(colls, entityId, m, x, z, d, jumps) ==
    LET originalY == m.position[2]
        entityIsOnGround == m.isGrounded /\ ~jumps
        entityVerticalVelocity == IF jumps THEN JumpStrength ELSE m.velocityY
        feet == BoxFromCenterAndSize(
                    <<x, originalY - GroundProbeHeight \div 2, z>>,
                    <<ENTITY_RADIUS * 2, GroundProbeHeight, ENTITY_RADIUS * 2>>)
        k == IF entityIsOnGround \/ entityVerticalVelocity <= 0
             THEN FirstOf(Supports(colls, entityId, feet, originalY,
                                   originalY + Scaled(entityVerticalVelocity, d)))
             ELSE 0
        stoodOnStaticObject == k # 0
        fallen == IF ~entityIsOnGround \/ entityVerticalVelocity # 0
                  THEN entityVerticalVelocity - Scaled(Gravity, d)
                  ELSE entityVerticalVelocity
        intendedVerticalDelta ==
            IF stoodOnStaticObject THEN colls[k].worldAABB.max[2] - originalY
            ELSE Scaled(fallen, d)
        lands == ~stoodOnStaticObject /\ originalY + intendedVerticalDelta <= 0
        y1 == IF stoodOnStaticObject THEN colls[k].worldAABB.max[2]
              ELSE IF lands THEN 0 ELSE originalY + intendedVerticalDelta
        v1 == IF stoodOnStaticObject \/ lands THEN 0 ELSE fallen
        c == IF entityVerticalVelocity > 0 /\ intendedVerticalDelta > -1
             THEN FirstOf(Ceilings(colls, entityId, x, z, originalY, y1))
             ELSE 0
    IN IF c # 0
       THEN <<colls[c].worldAABB.min[2] - ENTITY_HEIGHT - CeilingGap, 0,
              stoodOnStaticObject \/ lands>>
       ELSE <<y1, v1, stoodOnStaticObject \/ lands>>

\* Game.updateMovement for the actor of the scene
MovedBy(m, d, heading) ==
    LET colls == CollidablesOf(m)
        original == m.position
        intendedMove == IntendedMove(m.moveForward, heading, d)
        x == ResolvedX(colls, HERO, original, intendedMove[1])
        z == ResolvedZ(colls, HERO, original, x, intendedMove[2])
        jumps == Jumps(m.canJump, m.isGrounded)
        vertical == VerticalOf(colls, HERO, m, x, z, d, jumps)
    IN [m EXCEPT
            !.isWalking = WalkingFromIntent(m.moveForward, m.isGrounded),
            !.canJump = IF jumps THEN FALSE ELSE m.canJump,
            !.position = <<x, vertical[1], z>>,
            !.velocityY = vertical[2],
            !.isGrounded = vertical[3],
            !.box = <<x, vertical[1], z>>,
            !.last = [kind |-> "move", d |-> d, heading |-> heading,
                      intent |-> m.moveForward, jumped |-> jumps,
                      reverted |->
                        {axis \in {"x"} : x # original[1] + intendedMove[1]}
                            \cup {axis \in {"z"} : z # original[3] + intendedMove[2]},
                      frame |-> 1 - m.last.frame]]

\* the entries of the index the feet probe of the gravity-only physics can
\* land on
SupportsOfFall(colls, entityId, feet, feetY, nextFeetY) ==
    {k \in 1..Len(colls) :
        /\ colls[k].name # entityId
        /\ IntersectsBox(colls[k].worldAABB, feet)
        /\ feetY >= colls[k].worldAABB.max[2] - FallSnapBelow
        /\ nextFeetY <= colls[k].worldAABB.max[2] + FallSnapAbove}

\* Game.updateNonControlledEntityPhysics for the actor of the scene, when it
\* is neither controlled nor a combatant
FallenBy(m, d) ==
    LET colls == CollidablesOf(m)
        x == m.position[1]
        originalY == m.position[2]
        z == m.position[3]
        fallen == IF ~m.isGrounded \/ m.velocityY # 0
                  THEN m.velocityY - Scaled(Gravity, d)
                  ELSE m.velocityY
        newY == originalY + Scaled(fallen, d)
        feet == BoxFromCenterAndSize(
                    <<x, newY - GroundProbeHeight \div 2, z>>,
                    <<ENTITY_RADIUS * 2, GroundProbeHeight, ENTITY_RADIUS * 2>>)
        k == FirstOf(SupportsOfFall(colls, HERO, feet, originalY, newY))
        stoodOnStaticObject == k # 0
        lands == ~stoodOnStaticObject /\ newY <= 0
        y1 == IF stoodOnStaticObject THEN colls[k].worldAABB.max[2]
              ELSE IF lands THEN 0 ELSE newY
        v1 == IF stoodOnStaticObject \/ lands THEN 0 ELSE fallen
        c == IF v1 > 0 THEN FirstOf(Ceilings(colls, HERO, x, z, originalY, y1)) ELSE 0
    IN [m EXCEPT
            !.position = IF c # 0
                         THEN <<x, colls[c].worldAABB.min[2] - ENTITY_HEIGHT - CeilingGap, z>>
                         ELSE <<x, y1, z>>,
            !.velocityY = IF c # 0 THEN 0 ELSE v1,
            !.isGrounded = stoodOnStaticObject \/ lands,
            !.last = [kind |-> "physics", d |-> d, heading |-> <<0, 0>>,
                      intent |-> FALSE, jumped |-> FALSE, reverted |-> {},
                      frame |-> 1 - m.last.frame]]

\* where the actor of the scene is placed: on the floor or on the platform
MoverStarts == {<<0, 0, 0>>, <<RoomX, PlatformTop, 0>>}

InitMove ==
    /\ InitIn({CHOOSE world \in Worlds : TRUE})
    /\ pacing = NoPacing
    /\ probe = NoProbe
    /\ \E start \in MoverStarts :
            mover = [NoMover EXCEPT !.position = start, !.box = start]

\* keydown KeyW
MoverKeyDownForward ==
    /\ ~mover.moveForward
    /\ mover' = [mover EXCEPT !.moveForward = TRUE]
    /\ UNCHANGED <<gameVars, pacing, probe>>

\* keyup KeyW
MoverKeyUpForward ==
    /\ mover.moveForward
    /\ mover' = [mover EXCEPT !.moveForward = FALSE]
    /\ UNCHANGED <<gameVars, pacing, probe>>

\* keydown Space
MoverKeyDownSpace ==
    /\ ~mover.canJump
    /\ mover' = [mover EXCEPT !.canJump = TRUE]
    /\ UNCHANGED <<gameVars, pacing, probe>>

\* keyup Space
MoverKeyUpSpace ==
    /\ mover.canJump
    /\ mover' = [mover EXCEPT !.canJump = FALSE]
    /\ UNCHANGED <<gameVars, pacing, probe>>

\* keydown Digit1: control passes from the camera to the actor
MoverKeyDigit ==
    /\ ~mover.controlled
    /\ mover' = [mover EXCEPT !.controlled = TRUE, !.moveForward = FALSE]
    /\ UNCHANGED <<gameVars, pacing, probe>>

\* keydown Backquote: resetMovementAndAnimationState(controlledTargetId)
\* clears the direction keys whoever is in control and isWalking of the
\* actor when it is the one in control; control passes to the camera
MoverKeyBackquote ==
    /\ mover' = [mover EXCEPT !.controlled = FALSE, !.moveForward = FALSE,
                              !.isWalking = IF mover.controlled THEN FALSE ELSE @]
    /\ UNCHANGED <<gameVars, pacing, probe>>

\* click on the free-camera entry of the control list: control passes to
\* the camera, and nothing is reset
MoverClickFreeCamera ==
    /\ mover' = [mover EXCEPT !.controlled = FALSE]
    /\ UNCHANGED <<gameVars, pacing, probe>>

\* click on the actor's entry of the control list: control passes to the
\* actor, and nothing is reset
MoverClickControlList ==
    /\ mover' = [mover EXCEPT !.controlled = TRUE]
    /\ UNCHANGED <<gameVars, pacing, probe>>

\* Game.animate for the actor of the scene: updateMovement when it is
\* controlled, updateNonControlledEntityPhysics when it is not
MoverTick ==
    /\ \E d \in MoveDeltas, heading \in Headings :
            mover' = IF mover.controlled
                     THEN MovedBy(mover, d, heading)
                     ELSE FallenBy(mover, d)
    /\ UNCHANGED <<gameVars, pacing, probe>>

NextMove ==
    \/ MoverKeyDownForward
    \/ MoverKeyUpForward
    \/ MoverKeyDownSpace
    \/ MoverKeyUpSpace
    \/ MoverKeyDigit
    \/ MoverKeyBackquote
    \/ MoverClickFreeCamera
    \/ MoverClickControlList
    \/ MoverTick

SpecMove == InitMove /\ [][NextMove]_vars

---------------------------------------------------------------------------
\* Properties

Range(seq) == {seq[i] : i \in 1..Len(seq)}
Max(a, b) == IF a >= b THEN a ELSE b

\* the frame's turn resolution has been applied and its result is at hand
AfterCombatTick == phase = "remove"

\* the hostile actor the frame's turn took out of the rotation, if any
TookOut == Range(turn.orderBefore) \ Range(turnOrder)

\* C1: during an active session, after every turn resolution and every
\* defeat of a hostile actor, 0 <= currentTurnIndex < length(turnOrder).
C1_TurnIndexInRange ==
    isInCombat => (0 <= currentTurnIndex /\ currentTurnIndex < Len(turnOrder))

\* a turn took a hostile actor out of the rotation and the session goes on
C1_Witness ==
    /\ AfterCombatTick
    /\ isInCombat
    /\ turn.resolved
    /\ Len(turnOrder) < Len(turn.orderBefore)

\* The actor that followed position index in order, skipping removed.
FollowerOf(order, index, removed) ==
    LET n == Len(order)
        first == order[((index + 1) % n) + 1]
        second == order[((index + 2) % n) + 1]
    IN IF first # removed THEN first ELSE second

\* C2: when a turn removes a hostile actor from turnOrder and at least two
\* entries survive, the next turn belongs to the actor that followed the
\* attacker in the order before the removal, the removed actor skipped.
C2_NextTurnAfterRemoval ==
    (/\ AfterCombatTick
     /\ isInCombat
     /\ turn.resolved
     /\ Len(turnOrder) = Len(turn.orderBefore) - 1
     /\ Len(turnOrder) >= 2)
    => \A removed \in TookOut :
        turnOrder[currentTurnIndex + 1]
            = FollowerOf(turn.orderBefore, turn.indexBefore, removed)

\* the removed actor stood before the attacker in the order, so the index
\* had to move down
C2_Witness ==
    /\ AfterCombatTick
    /\ isInCombat
    /\ Len(turnOrder) = Len(turn.orderBefore) - 1
    /\ Len(turnOrder) >= 2
    /\ \E removed \in TookOut :
            IndexOf(turn.orderBefore, removed) < turn.indexBefore

\* C3: an attack leaves the target with max(0, hp before - damage), and no
\* actor's hp is ever negative.
C3_DamageClamp ==
    /\ \A id \in DOMAIN pcs \cup DOMAIN npcs : StateOf(id).hp >= 0
    /\ (AfterCombatTick /\ turn.target # NULL)
        => StateOf(turn.target).hp = Max(0, turn.hpBefore - turn.damage)

\* an attack whose damage exceeds what the target had left
C3_Witness ==
    /\ AfterCombatTick
    /\ turn.target # NULL
    /\ turn.hpBefore - turn.damage < 0
    /\ StateOf(turn.target).hp = 0

SomePairWithin(radius) ==
    \E p \in DOMAIN pcs, n \in DOMAIN npcs :
        DistanceTo(pcs[p].position, npcs[n].position) < radius

SomePairExactlyAt(radius) ==
    \E p \in DOMAIN pcs, n \in DOMAIN npcs :
        DistanceTo(pcs[p].position, npcs[n].position) = radius

\* the engagement check of this frame has just run
AfterEngagementCheck == phase = "companion"

\* C4: with no session active, the engagement check starts one exactly when
\* some controllable and some hostile actor are less than 15 apart; a
\* distance of exactly 15 starts none.
C4_EngagementIffWithinRadius ==
    AfterEngagementCheck =>
        /\ (started # {}) => (isInCombat /\ SomePairWithin(15))
        /\ (~isInCombat) => ~SomePairWithin(15)

\* the check ran with a pair exactly 15 apart and no session started
C4_Witness ==
    /\ AfterEngagementCheck
    /\ ~isInCombat
    /\ started = {}
    /\ SomePairExactlyAt(15)

\* C5: at session start the combatants are all controllable actors, the
\* triggering hostile actor and the hostile actors less than 15 from it;
\* nobody else; and no controllable actor is walking.
C5_CombatantsAtStart ==
    (AfterEngagementCheck /\ started # {}) =>
        /\ \E trigger \in DOMAIN npcs :
            /\ \E p \in DOMAIN pcs :
                    DistanceTo(pcs[p].position, npcs[trigger].position) < 15
            /\ combatants =
                    DOMAIN pcs \cup {trigger}
                    \cup {n \in DOMAIN npcs :
                            DistanceTo(npcs[n].position, npcs[trigger].position) < 15}
        /\ \A p \in DOMAIN pcs : ~pcs[p].isWalking

\* a session started that a hostile actor joined by one hop only, being 15
\* or more from every controllable actor
C5_Witness ==
    /\ AfterEngagementCheck
    /\ started # {}
    /\ \E n \in combatants \cap DOMAIN npcs :
            \A p \in DOMAIN pcs : DistanceTo(pcs[p].position, npcs[n].position) >= 15

LiveMembers(map, members) == {id \in DOMAIN map : id \in members /\ map[id].hp > 0}

\* C6: after a resolved turn the session ends exactly when the combatant
\* set holds no controllable actor with hp > 0 or no hostile actor with
\* hp > 0; a tick that resolves no turn ends no session.
C6_EndCondition ==
    AfterCombatTick =>
        (~isInCombat <=>
            /\ turn.resolved
            /\ \/ LiveMembers(pcs, combatResult.updatedCombatants) = {}
               \/ LiveMembers(npcs, combatResult.updatedCombatants) = {})

\* a session ended by the defeat of the last controllable combatant, a
\* hostile one still standing
C6_Witness ==
    /\ AfterCombatTick
    /\ ~isInCombat
    /\ turn.resolved
    /\ LiveMembers(pcs, combatResult.updatedCombatants) = {}
    /\ LiveMembers(npcs, combatResult.updatedCombatants) # {}

\* C7: every attack yields exactly one shot event {attackerId, targetId} in
\* the result of its tick, the session's last attack included; a tick
\* without an attack yields none.
C7_ShotPerAttack ==
    AfterCombatTick =>
        combatResult.shotEvents =
            IF turn.target # NULL
            THEN <<[attackerId |-> turn.attacker, targetId |-> turn.target]>>
            ELSE <<>>

\* C8 as claimed: a turn resolves only when the accumulated timer has
\* reached the turn duration, and the timer is then 0.
C8_ResolvesOnlyWhenDue ==
    (AfterCombatTick /\ turn.resolved) =>
        (turn.accumulated >= TURN_DURATION * 1000 /\ turnTimer = 0)

\* C8 amended: a turn resolves only when the accumulated timer has reached
\* the turn duration or the actor whose turn it is has hp <= 0; the timer
\* is then 0.
C8_ResolvesWhenDueOrDead ==
    (AfterCombatTick /\ turn.resolved) =>
        /\ \/ turn.accumulated >= TURN_DURATION * 1000
           \/ StateOf(turn.attacker).hp <= 0
        /\ turnTimer = 0

\* the turn of a defeated actor resolved before the timer was due
C8_Witness ==
    /\ AfterCombatTick
    /\ turn.resolved
    /\ turn.accumulated < TURN_DURATION * 1000
    /\ StateOf(turn.attacker).hp <= 0

\* C9 as claimed: two ways of splitting the same elapsed time into ticks
\* resolve the same number of turns.
C9_SplitIndependent ==
    pacing.a.elapsed = pacing.b.elapsed => pacing.a.turns = pacing.b.turns

\* C9 amended: time below the turn duration carries over from tick to tick,
\* but a resolved turn restarts the timer from 0, the excess dropped; each
\* resolved turn has consumed at least one turn duration.
C9_ExcessDropped ==
    \A run \in {pacing.a, pacing.b} :
        /\ run.resolved => run.timer = 0
        /\ ~run.resolved => run.timer > 0 \/ run.elapsed = 0
        /\ run.turns * TURN_DURATION * 1000 <= run.elapsed - run.timer

\* the same elapsed time, split two ways, resolved different numbers of turns
C9_Witness ==
    /\ pacing.a.elapsed = pacing.b.elapsed
    /\ pacing.a.turns # pacing.b.turns

\* C10: a hostile target brought to 0 hp leaves the combatant set and
\* turnOrder in that turn and is in the tick's defeated list; a controllable
\* target brought to 0 hp stays in both.
C10_DefeatRemoval ==
    (AfterCombatTick /\ turn.target # NULL /\ StateOf(turn.target).hp = 0) =>
        IF turn.target \in DOMAIN npcs
        THEN /\ turn.target \notin combatResult.updatedCombatants
             /\ turn.target \notin combatants
             /\ turn.target \notin Range(turnOrder)
             /\ turn.target \in Range(combatResult.defeatedNpcIds)
        ELSE /\ turn.target \in combatResult.updatedCombatants
             /\ turn.target \notin Range(combatResult.defeatedNpcIds)
             /\ isInCombat => (turn.target \in combatants
                               /\ turn.target \in Range(turnOrder))

\* a controllable actor was brought to 0 hp and the session goes on with it
C10_Witness ==
    /\ AfterCombatTick
    /\ isInCombat
    /\ turn.target \in DOMAIN pcs
    /\ pcs[turn.target].hp = 0
    /\ turn.target \in Range(turnOrder)

\* the frame is over: the next event or the next frame comes
AtTickBoundary == phase = "frame"

\* C11: during an active session every id in turnOrder is present in the
\* actor state store, at every tick boundary (and inside the tick as well):
\* no id survives in turnOrder after being deleted from the store.
C11_TurnOrderInStore ==
    isInCombat => \A id \in Range(turnOrder) : HasState(id)

\* a hostile actor was deleted from the store and the session goes on with
\* another one
C11_Witness ==
    /\ AtTickBoundary
    /\ isInCombat
    /\ "n1" \notin DOMAIN npcs
    /\ "n2" \in Range(turnOrder)

\* the attacks of a weapon that reach a target at the squared distance
Reaching(attacks, distanceSq) ==
    {i \in 1..Len(attacks) : attacks[i].range * attacks[i].range >= distanceSq}

\* C12: the damage of an attack is the highest damage among the attacker's
\* attacks whose squared range is >= the squared distance to the target; with
\* no such attack (or no attacks at all) it is 1, and the hit still lands.
C12_BestAttackDamage ==
    probe.done =>
        LET reaching == Reaching(probe.attacks, probe.distanceSq)
        IN /\ reaching # {} =>
                /\ \E i \in reaching : probe.damage = probe.attacks[i].damage
                /\ \A i \in reaching : probe.damage >= probe.attacks[i].damage
           /\ reaching = {} => probe.damage = 1
           /\ probe.hpAfter = Max(0, probe.hp - probe.damage)
           /\ probe.hpAfter < probe.hp

\* a weapon none of whose attacks reaches the target: the hit takes 1 hp
C12_Witness ==
    /\ probe.done
    /\ Len(probe.attacks) > 0
    /\ Reaching(probe.attacks, probe.distanceSq) = {}
    /\ probe.hp = 100
    /\ probe.hpAfter = 99

\* C13: no actor's currentTargetId is its own id, and no controllable
\* actor's currentTargetId names a controllable actor.
C13_NoSelfNoFriendlyTarget ==
    /\ \A id \in DOMAIN pcs \cup DOMAIN npcs : StateOf(id).currentTargetId # id
    /\ \A p \in DOMAIN pcs : pcs[p].currentTargetId \notin PcIds

\* of two controllable actors, one was given a hostile target, then control
\* went to the other, which has none
C13_Witness ==
    /\ controlledTargetId \in DOMAIN pcs
    /\ pcs[controlledTargetId].currentTargetId = NULL
    /\ \E p \in DOMAIN pcs \ {controlledTargetId} : pcs[p].currentTargetId \in NpcIds

\* C14: a pick made while a controllable actor is controlled sets that
\* actor's currentTargetId to the picked id when the pick names a live hostile
\* actor other than the controlled actor, and to null when the pick is empty,
\* names the controlled actor or names a non-hostile actor; nothing else of
\* the simulation changes.
C14_PickSetsOrClearsTarget ==
    [][\A pick \in Picks :
        MouseDown(pick) =>
            LET after == pcs'[controlledTargetId].currentTargetId
            IN /\ (pick \in DOMAIN npcs /\ npcs[pick].hp > 0
                        /\ pick # controlledTargetId) => after = pick
               /\ (pick = NULL \/ pick = controlledTargetId
                        \/ pick \notin DOMAIN npcs) => after = NULL
               /\ pcs' = [pcs EXCEPT ![controlledTargetId].currentTargetId = after]
               /\ UNCHANGED <<npcs, controlledTargetId, moveForward, isInCombat,
                              combatants, turnOrder, currentTurnIndex, turnTimer>>
      ]_vars

\* outside any session, the controlled actor holds a target: a pick set it
C14_Witness ==
    /\ AtTickBoundary
    /\ ~isInCombat
    /\ controlledTargetId \in DOMAIN pcs
    /\ pcs[controlledTargetId].currentTargetId \in DOMAIN npcs

\* the follow rule of this frame has just run
AfterCompanionStep == phase = "physics"

\* C15: an idle companion that is not pursuing starts exactly when its
\* distance to the leader is > 5; one that is pursuing stops exactly when the
\* distance is < 4; between 4 and 5 its pursuing state stays as it was.  At
\* distance 6 it pursues after the tick, below 4 it does not.
C15_FollowHysteresis ==
    AfterCompanionStep =>
        \A f \in follow :
            LET pursuing == pcs[f.id].isWalking
            IN /\ ~f.wasWalking => (pursuing <=> f.distanceToLeader > 5)
               /\ f.wasWalking => (~pursuing <=> f.distanceToLeader < 4)
               /\ (f.distanceToLeader >= 4 /\ f.distanceToLeader <= 5)
                    => pursuing = f.wasWalking
               /\ f.distanceToLeader >= 6 => pursuing
               /\ f.distanceToLeader < 4 => ~pursuing

\* a pursuing companion found itself at a distance between the thresholds
\* and went on pursuing
C15_Witness ==
    /\ AfterCompanionStep
    /\ \E f \in follow :
        /\ f.wasWalking
        /\ f.distanceToLeader >= 4
        /\ f.distanceToLeader <= 5
        /\ pcs[f.id].isWalking

\* The scenario world: controllable A ("a", hp 100, default weapon) and
\* hostile B ("b", hp 100, one attack of damage 25 and range 20), 10 apart.
Scenario == "a" \in DOMAIN pcs

\* A's second turn of the session has just resolved with a hit on B, A's
\* first turn having hit as well (two actors alternate: A's second turn is
\* the session's third or fourth).
ScenarioSecondHitOfA ==
    /\ Scenario
    /\ AfterCombatTick
    /\ turn.attacker = "a"
    /\ turn.target = "b"
    /\ turn.hpBefore < 100
    /\ sessionTurns \in {3, 4}

\* C16 as claimed: in the scenario, B's hp reaches 0 on A's second turn; at
\* that resolution B is removed from turnOrder and reported defeated, and the
\* session ends in that same tick.
C16_ScenarioDefeatOnSecondTurn ==
    ScenarioSecondHitOfA =>
        /\ npcs["b"].hp = 0
        /\ "b" \notin Range(turn.orderAfter)
        /\ "b" \in Range(combatResult.defeatedNpcIds)
        /\ ~isInCombat

\* C16 amended: in the scenario A's default attack deals 10 a turn, so A's
\* second turn leaves B at 80 hp and in turnOrder, and four alternating turns
\* leave A at 50 hp; B's hp never reaches 0 (it stays >= 60): B's fourth
\* turn, the session's seventh or eighth, brings A to 0 hp, A stays in
\* turnOrder, and the session ends in that same tick and in no other.
C16_ScenarioOutcome ==
    Scenario =>
        /\ "b" \in DOMAIN npcs /\ npcs["b"].hp >= 60
        /\ ScenarioSecondHitOfA =>
                /\ npcs["b"].hp = 80
                /\ "b" \in Range(turn.orderAfter)
                /\ combatResult.defeatedNpcIds = <<>>
                /\ isInCombat
        /\ (AfterCombatTick /\ turn.resolved /\ sessionTurns = 4) => pcs["a"].hp = 50
        /\ (AfterCombatTick /\ turn.resolved) => (~isInCombat <=> pcs["a"].hp = 0)
        /\ (AfterCombatTick /\ turn.target = "a" /\ pcs["a"].hp = 0) =>
                /\ sessionTurns \in {7, 8}
                /\ "a" \in Range(turn.orderAfter)

\* four alternating turns without a miss: B at 80 hp, A at 50, session on
C16_Witness ==
    /\ ScenarioSecondHitOfA
    /\ sessionTurns = 4
    /\ npcs["b"].hp = 80
    /\ pcs["a"].hp = 50
    /\ isInCombat

\* the session ended in this frame
SessionEndedNow == AfterCombatTick /\ combatResult.combatShouldEnd

\* C17: when a session ends, every actor still in the combatant set has
\* isWalking = false, and afterwards the combatant set is empty, turnOrder is
\* empty and currentTurnIndex is 0.
C17_ExitResets ==
    /\ SessionEndedNow =>
            /\ ~isInCombat
            /\ \A id \in combatResult.updatedCombatants :
                    HasState(id) => ~StateOf(id).isWalking
    /\ ~isInCombat =>
            /\ combatants = {}
            /\ turnOrder = <<>>
            /\ currentTurnIndex = 0

\* the session ended while the controlled combatant was walking on the
\* player's intent and the turn index stood past 0
C17_Witness ==
    /\ SessionEndedNow
    /\ moveForward
    /\ controlledTargetId \in combatResult.updatedCombatants
    /\ ~pcs[controlledTargetId].isWalking
    /\ turn.indexAfter > 0
    /\ currentTurnIndex = 0

HpOf(map) == [id \in DOMAIN map |-> map[id].hp]

\* C18: switching the controlled actor, to another controllable actor or to
\* the free camera, during an active session does not end it: isInCombat, the
\* combatant set, turnOrder, currentTurnIndex, turnTimer and every hp stay.
C18_SwitchKeepsSession ==
    [][(isInCombat /\ controlledTargetId' # controlledTargetId) =>
            /\ UNCHANGED <<isInCombat, combatants, turnOrder, currentTurnIndex,
                           turnTimer>>
            /\ HpOf(pcs') = HpOf(pcs)
            /\ HpOf(npcs') = HpOf(npcs)
      ]_vars

\* in a first session, which only the controlled p1 walking up to n1 can
\* have started, control has gone to p2
C18_Witness ==
    /\ isInCombat
    /\ \A id \in DOMAIN pcs \cup DOMAIN npcs : StateOf(id).hp = InitialHp
    /\ "p2" \in combatants
    /\ controlledTargetId = "p2"

\* the actor whose turn it is, as the combat step of this frame finds it
TurnHolder == StateOf(turnOrder[currentTurnIndex + 1])

SkippedTurnResolves ==
    /\ phase = "combat"
    /\ isInCombat
    /\ Len(turnOrder) > 0
    /\ HasState(turnOrder[currentTurnIndex + 1])
    /\ (TurnHolder.hp <= 0 \/ TurnHolder.isWalking)
    /\ turn'.resolved

\* C20: when a turn resolves for an actor whose hp is at most 0 or who is
\* walking, no hp changes, no shot event is produced and currentTurnIndex
\* advances by one modulo the length of turnOrder; a controllable actor at
\* 0 hp is not taken out of turnOrder, its turns are skipped.
C20_SkippedTurn ==
    [][SkippedTurnResolves =>
            /\ HpOf(pcs') = HpOf(pcs)
            /\ HpOf(npcs') = HpOf(npcs)
            /\ combatResult'.shotEvents = <<>>
            /\ turn'.target = NULL
            /\ turn'.orderAfter = turnOrder
            /\ turn'.indexAfter = (currentTurnIndex + 1) % Len(turnOrder)
      ]_vars

\* a controllable actor at 0 hp has just had its turn skipped in a session
\* that goes on, and a walking actor with hp left has had its turn skipped
C20_Witness ==
    /\ AfterCombatTick
    /\ isInCombat
    /\ turn.resolved
    /\ turn.target = NULL
    /\ turn.attacker \in DOMAIN pcs
    /\ turn.attacker \in Range(turnOrder)
    /\ pcs[turn.attacker].hp = 0
    /\ turn.indexAfter = (turn.indexBefore + 1) % Len(turn.orderBefore)

C20_WitnessWalking ==
    /\ AfterCombatTick
    /\ isInCombat
    /\ turn.resolved
    /\ turn.target = NULL
    /\ turn.attacker \in DOMAIN pcs
    /\ pcs[turn.attacker].hp > 0
    /\ pcs[turn.attacker].isWalking

\* C19: if ticks keep occurring with positive elapsed time and every attack
\* deals at least 1 damage, every active session eventually ends, whatever
\* movement intents and control switches the player issues.
C19_SessionEnds == isInCombat ~> ~isInCombat

\* a session ends on a tick, with the free camera in control, although the
\* controllable actor lost every one of its turns to walking
C19_Witness ==
    /\ SessionEndedNow
    /\ sessionTurns >= 2
    /\ controlledTargetId = CAMERA
    /\ \A n \in DOMAIN npcs : npcs[n].hp = InitialHp

---------------------------------------------------------------------------
\* A turn resolves in this step for an actor that is not skipped.
ActingTurnResolves ==
    /\ phase = "combat"
    /\ isInCombat
    /\ Len(turnOrder) > 0
    /\ HasState(turnOrder[currentTurnIndex + 1])
    /\ TurnHolder.hp > 0
    /\ ~TurnHolder.isWalking
    /\ turn'.resolved

\* the hostile combatants with hp left, before the turn
LiveHostileCombatants == {n \in DOMAIN npcs : n \in combatants /\ npcs[n].hp > 0}

\* the controllable combatants with hp left, before the turn
LiveControllableCombatants == {p \in DOMAIN pcs : p \in combatants /\ pcs[p].hp > 0}

\* id is one of the actors of candidates nearest to position fromPos
NearestAmong(id, candidates, fromPos) ==
    /\ id \in candidates
    /\ \A other \in candidates :
        DistanceTo(fromPos, StateOf(id).position)
            <= DistanceTo(fromPos, StateOf(other).position)

\* C21: on a controllable actor's non-skipped turn the target is its
\* currentTargetId if that actor has hp > 0, is a combatant and is hostile;
\* otherwise the target is the live hostile combatant nearest to the
\* attacker, and no attack is made only if no live hostile combatant exists.
C21_ControllableTarget ==
    [][(ActingTurnResolves /\ turnOrder[currentTurnIndex + 1] \in DOMAIN pcs) =>
            IF TurnHolder.currentTargetId \in LiveHostileCombatants
            THEN turn'.target = TurnHolder.currentTargetId
            ELSE IF LiveHostileCombatants = {}
                 THEN turn'.target = NULL
                 ELSE NearestAmong(turn'.target, LiveHostileCombatants,
                                   TurnHolder.position)
      ]_vars

\* a controllable actor has just hit the hostile combatant it had picked
\* although another live hostile combatant stood nearer
C21_Witness ==
    /\ AfterCombatTick
    /\ turn.resolved
    /\ turn.attacker \in DOMAIN pcs
    /\ turn.target \in DOMAIN npcs
    /\ pcs[turn.attacker].currentTargetId = turn.target
    /\ \E n \in DOMAIN npcs :
        /\ n \in Range(turn.orderBefore)
        /\ n # turn.target
        /\ npcs[n].hp > 0
        /\ DistanceTo(pcs[turn.attacker].position, npcs[n].position)
            < DistanceTo(pcs[turn.attacker].position, npcs[turn.target].position)

\* a controllable actor with no pick has just hit the nearest hostile
\* combatant, another one standing farther
C21_WitnessNearest ==
    /\ AfterCombatTick
    /\ turn.resolved
    /\ turn.attacker \in DOMAIN pcs
    /\ turn.target \in DOMAIN npcs
    /\ pcs[turn.attacker].currentTargetId = NULL
    /\ \E n \in DOMAIN npcs :
        /\ n \in Range(turn.orderBefore)
        /\ n # turn.target
        /\ DistanceTo(pcs[turn.attacker].position, npcs[n].position)
            > DistanceTo(pcs[turn.attacker].position, npcs[turn.target].position)

\* C22: on a hostile actor's non-skipped turn the target is always the
\* controllable combatant with hp > 0 nearest to it, whatever the hostile
\* actor's currentTargetId; a hostile actor never damages a hostile actor
\* and a controllable actor never damages a controllable actor.
C22_HostileTarget ==
    [][/\ (ActingTurnResolves /\ turnOrder[currentTurnIndex + 1] \in DOMAIN npcs) =>
            IF LiveControllableCombatants = {}
            THEN turn'.target = NULL
            ELSE NearestAmong(turn'.target, LiveControllableCombatants,
                              TurnHolder.position)
       /\ \A p \in DOMAIN pcs :
            pcs'[p].hp # pcs[p].hp =>
                /\ turn'.resolved
                /\ turn'.target = p
                /\ turn'.attacker \in DOMAIN npcs
       /\ \A n \in DOMAIN npcs \cap DOMAIN npcs' :
            npcs'[n].hp # npcs[n].hp =>
                /\ turn'.resolved
                /\ turn'.target = n
                /\ turn'.attacker \in DOMAIN pcs
      ]_vars

\* a hostile actor has just hit the nearer of two controllable combatants
\* with hp left
C22_Witness ==
    /\ AfterCombatTick
    /\ turn.resolved
    /\ turn.attacker \in DOMAIN npcs
    /\ turn.target \in DOMAIN pcs
    /\ pcs[turn.target].hp < turn.hpBefore
    /\ \E p \in DOMAIN pcs :
        /\ p # turn.target
        /\ p \in Range(turn.orderBefore)
        /\ pcs[p].hp > 0
        /\ DistanceTo(npcs[turn.attacker].position, pcs[p].position)
            > DistanceTo(npcs[turn.attacker].position, pcs[turn.target].position)

\* a hostile actor has just hit the farther controllable combatant, the
\* nearer one being at 0 hp
C22_WitnessPastTheDead ==
    /\ AfterCombatTick
    /\ turn.resolved
    /\ turn.attacker \in DOMAIN npcs
    /\ turn.target \in DOMAIN pcs
    /\ \E p \in DOMAIN pcs :
        /\ p # turn.target
        /\ p \in Range(turn.orderBefore)
        /\ pcs[p].hp = 0
        /\ DistanceTo(npcs[turn.attacker].position, pcs[p].position)
            < DistanceTo(npcs[turn.attacker].position, pcs[turn.target].position)

NoDuplicates(seq) == \A i, j \in 1..Len(seq) : seq[i] = seq[j] => i = j

\* C23: throughout an active session turnOrder contains no id twice and its
\* set of members equals the combatant set, after every tick and every
\* removal.
C23_TurnOrderIsCombatants ==
    isInCombat => (NoDuplicates(turnOrder) /\ Range(turnOrder) = combatants)

\* a turn has taken a hostile actor out and the session goes on with at
\* least two combatants
C23_Witness ==
    /\ AfterCombatTick
    /\ isInCombat
    /\ turn.resolved
    /\ TookOut # {}
    /\ Cardinality(combatants) >= 2
    /\ Len(turnOrder) = Cardinality(combatants)

\* a session has been created in the tick whose combat step has just run
CreatedThisTick == AfterCombatTick /\ started # {}

\* C24: no turn resolves in the tick in which a session is created: the
\* first turn resolution of a session happens in a later tick.
C24_NoTurnInCreationTick == CreatedThisTick => ~turn.resolved

\* C25: within every tick the steps run in the order controlled-actor
\* movement, companion follow, engagement detection, physics, combat turn
\* resolution, removal; in particular engagement detection sees the follower
\* positions already updated by companion follow in that tick: once both
\* have run, no controllable and hostile actor stand within the radius
\* without a session.
C25_EngagementSeesFollowers ==
    (AfterCompanionStep /\ ~isInCombat) => ~SomePairWithin(COMBAT_DISTANCE)

\* C26: a session is created only when at least one controllable actor with
\* hp > 0 exists: once every controllable actor has hp 0 no new session
\* starts.
C26_NoSessionForTheDefeated ==
    (AfterEngagementCheck /\ started # {}) => \E p \in DOMAIN pcs : pcs[p].hp > 0

\* C27: every switch of control away from an actor, by the free-camera key,
\* a digit key or a click on the control list, sets that actor's isWalking
\* to false and clears the pressed movement directions.
C27_SwitchResetsMovement ==
    [][(controlledTargetId \in DOMAIN pcs /\ controlledTargetId' # controlledTargetId) =>
            /\ moveForward' = FALSE
            /\ pcs'[controlledTargetId].isWalking = FALSE
      ]_vars

\* C28: when a controllable actor takes a non-skipped turn while its
\* currentTargetId names an actor that is dead, removed from the store, not
\* a combatant or not hostile, currentTargetId is set to null and the turn
\* proceeds with the nearest live hostile combatant.
C28_StaleTargetCleared ==
    [][(/\ ActingTurnResolves
        /\ turnOrder[currentTurnIndex + 1] \in DOMAIN pcs
        /\ TurnHolder.currentTargetId # NULL
        /\ TurnHolder.currentTargetId \notin LiveHostileCombatants) =>
            /\ pcs'[turnOrder[currentTurnIndex + 1]].currentTargetId = NULL
            /\ LiveHostileCombatants # {} =>
                    NearestAmong(turn'.target, LiveHostileCombatants,
                                 TurnHolder.position)
      ]_vars

\* a controllable actor whose pick had been removed from the store has just
\* hit the nearest hostile combatant, its currentTargetId now null
C28_Witness ==
    /\ AfterCombatTick
    /\ turn.resolved
    /\ turn.wanted # NULL
    /\ ~HasState(turn.wanted)
    /\ turn.target \in DOMAIN npcs
    /\ pcs[turn.attacker].currentTargetId = NULL

\* the same with a pick that is in the store but is no combatant
C28_WitnessNotCombatant ==
    /\ AfterCombatTick
    /\ turn.resolved
    /\ turn.wanted \in DOMAIN npcs
    /\ turn.wanted \notin Range(turn.orderBefore)
    /\ turn.target \in DOMAIN npcs
    /\ pcs[turn.attacker].currentTargetId = NULL

\* C29: at every tick boundary each controllable actor's currentTargetId is
\* either null or names an actor that is present in the state store with
\* hp > 0.
C29_TargetLiveAtBoundary ==
    AtTickBoundary =>
        \A p \in DOMAIN pcs :
            \/ pcs[p].currentTargetId = NULL
            \/ /\ HasState(pcs[p].currentTargetId)
               /\ StateOf(pcs[p].currentTargetId).hp > 0

\* C29 as amended: at every tick boundary each controllable actor's
\* currentTargetId is null, or names a hostile actor present in the store
\* with hp > 0, or names a hostile actor that has been removed from the
\* store; it never names an actor that is in the store with hp 0.
C29_TargetLiveOrRemoved ==
    AtTickBoundary =>
        \A p \in DOMAIN pcs :
            \/ pcs[p].currentTargetId = NULL
            \/ /\ pcs[p].currentTargetId \in DOMAIN npcs
               /\ npcs[pcs[p].currentTargetId].hp > 0
            \/ /\ pcs[p].currentTargetId \in NpcIds
               /\ ~HasState(pcs[p].currentTargetId)

\* at a tick boundary a controllable actor's currentTargetId names a hostile
\* actor that is no longer in the store
C29_Witness ==
    /\ AtTickBoundary
    /\ \E p \in DOMAIN pcs :
        /\ pcs[p].currentTargetId \in NpcIds
        /\ ~HasState(pcs[p].currentTargetId)

\* C30: every hostile actor whose hp reaches 0 is, by the end of that same
\* tick, absent from the actor state store, the collision index, the
\* combatant set and turnOrder: a hostile actor at 0 hp is in the store only
\* between the combat step and the removal step of one tick, it is then in
\* the list of the defeated and in neither the combatant set nor turnOrder,
\* and the store and the collision index lose it in one step.
C30_DefeatedGoneByEndOfTick ==
    /\ \A n \in DOMAIN npcs :
        npcs[n].hp <= 0 =>
            /\ AfterCombatTick
            /\ n \in DefeatedSet
            /\ n \notin combatants
            /\ n \notin Range(turnOrder)
    /\ \A n \in NpcIds \ DOMAIN npcs :
        n \notin combatants /\ n \notin Range(turnOrder)
                              /\ n \notin DOMAIN staticCollidables
    /\ DOMAIN npcs \subseteq DOMAIN staticCollidables

\* a hostile actor has been removed and the session goes on against another
C30_Witness ==
    /\ AtTickBoundary
    /\ isInCombat
    /\ DOMAIN npcs = {"n2"}
    /\ DOMAIN staticCollidables \cap NpcIds = {"n2"}
    /\ "n2" \in combatants
    /\ combatants \cap DOMAIN pcs # {}

---------------------------------------------------------------------------
\* C31: the engagement detector acts only while no session is active:
\* during a session the combatant set and turnOrder never gain a member,
\* even when another hostile actor comes within the engagement radius of a
\* combatant.
C31_NoJoinDuringSession ==
    [][isInCombat =>
            /\ combatants' \subseteq combatants
            /\ Range(turnOrder') \subseteq Range(turnOrder)
      ]_vars

\* the engagement check of a tick of a session has just run with a hostile
\* actor that is no combatant within the radius of a combatant
C31_Witness ==
    /\ AfterEngagementCheck
    /\ isInCombat
    /\ started = {}
    /\ \E n \in DOMAIN npcs \ combatants, c \in combatants :
        DistanceTo(npcs[n].position, StateOf(c).position) < COMBAT_DISTANCE

---------------------------------------------------------------------------
\* C32: at the start of a session turnOrder is a permutation of the
\* combatant id set, currentTurnIndex is 0 and turnTimer is 0, also when an
\* earlier session has ended before.
C32_SessionStart ==
    (AfterEngagementCheck /\ started # {}) =>
        /\ isInCombat
        /\ combatants = started
        /\ Range(turnOrder) = combatants
        /\ Len(turnOrder) = Cardinality(combatants)
        /\ currentTurnIndex = 0
        /\ turnTimer = 0

\* a session has just started in a world that has already lost a hostile
\* actor to an earlier session
C32_Witness ==
    /\ AfterEngagementCheck
    /\ started = {"p1", "n1"}
    /\ DOMAIN npcs = {"n1"}
    /\ pcs["p1"].hp > 0
    /\ Len(turnOrder) = 2

---------------------------------------------------------------------------
\* C33: a combat tick (turn resolution and hostile facing update) never
\* changes any actor's position or isWalking, changes the hp of at most one
\* actor, the chosen target, and never increases any hp.  (The actors of this
\* model stand on the ground plane: velocity and isGrounded are no fields of
\* its entity states.)  isWalking is read in the maps updateCombatLogic
\* leaves behind, logged in turn.walking, before animate handles the result.
C33_CombatTickFrame ==
    [][(phase = "combat" /\ isInCombat) =>
            /\ DOMAIN pcs' = DOMAIN pcs
            /\ DOMAIN npcs' = DOMAIN npcs
            /\ \A id \in DOMAIN pcs :
                    /\ pcs'[id].position = pcs[id].position
                    /\ pcs'[id].hp <= pcs[id].hp
                    /\ pcs'[id].hp # pcs[id].hp => id = turn'.target
            /\ \A id \in DOMAIN npcs :
                    /\ npcs'[id].position = npcs[id].position
                    /\ npcs'[id].hp <= npcs[id].hp
                    /\ npcs'[id].hp # npcs[id].hp => id = turn'.target
            /\ turn'.walking = WalkingIn(pcs, npcs)
      ]_vars

\* a turn has just taken hp from its target while some actor was walking
C33_Witness ==
    /\ AfterCombatTick
    /\ turn.resolved
    /\ turn.target # NULL
    /\ HasState(turn.target)
    /\ StateOf(turn.target).hp < turn.hpBefore
    /\ turn.walking # {}

---------------------------------------------------------------------------
\* C34: the collision volume owned by an actor is located at that actor's
\* current position at every tick boundary, whether the actor was moved by
\* the movement resolver, by companion follow or by gravity-only physics.
C34_BoxAtPosition ==
    AtTickBoundary =>
        \A name \in DOMAIN staticCollidables :
            HasState(name) => staticCollidables[name] = StateOf(name).position

---------------------------------------------------------------------------
\* The movement scene: a step is a tick of the movement resolver when the
\* actor is controlled and the frame count moves on
ResolverTick == mover.controlled /\ mover'.last.frame # mover.last.frame

\* the state is the one a tick of the movement resolver has just left
AfterResolverTick == mover.controlled /\ mover.last.kind = "move"

\* the body of the actor of the scene, placed at <<x, y, z>>, overlaps a
\* structure of the room
OverlapsAt(x, y, z) ==
    \E k \in 1..Len(SceneBoxes) :
        IntersectsBox(SceneBoxes[k].worldAABB, PlayerAABB(x, y, z))

\* C35: horizontal movement is resolved one axis at a time, X then Z: the X
\* displacement is kept iff the actor's box at (x+dx, original z) intersects
\* no volume other than its own, and the Z displacement is kept iff the box
\* at (resolved x, z+dz) intersects none; a blocked axis is reverted without
\* cancelling the other, so the resolved position never overlaps a volume
\* when the starting position did not.
C35_AxisByAxis ==
    [][ResolverTick =>
            LET x == mover.position[1]
                y == mover.position[2]
                z == mover.position[3]
                move == IntendedMove(mover'.last.intent, mover'.last.heading,
                                     mover'.last.d)
                resolvedX == mover'.position[1]
                resolvedZ == mover'.position[3]
            IN /\ resolvedX = IF OverlapsAt(x + move[1], y, z) THEN x ELSE x + move[1]
               /\ resolvedZ = IF OverlapsAt(resolvedX, y, z + move[2])
                              THEN z ELSE z + move[2]
               /\ ~OverlapsAt(x, y, z) => ~OverlapsAt(resolvedX, y, resolvedZ)
      ]_vars

\* a diagonal move has just been resolved with one axis kept and the other
\* reverted: the actor stands clear of the walls and slid along one
C35_Witness ==
    /\ AfterResolverTick
    /\ mover.last.intent
    /\ mover.last.heading = <<600, 800>>
    /\ mover.last.d = 100
    /\ mover.last.reverted = {"z"}
    /\ mover.position[1] = 300
    /\ mover.position[3] = 400
    /\ ~OverlapsAt(mover.position[1], mover.position[2], mover.position[3])
    /\ OverlapsAt(mover.position[1], mover.position[2], mover.position[3] + 400)

---------------------------------------------------------------------------
\* the tick of the movement resolver that the step takes finds a jump
\* requested
JumpRequested == ResolverTick /\ mover.canJump

\* C36 as stated: when a jump is requested and the controlled actor is
\* grounded, in that same tick velocity.y is set to the jump strength and
\* isGrounded becomes false, and the request is consumed; a jump request
\* made while the actor is airborne does not change velocity.y until the
\* actor is grounded again.
C36_JumpSetsStrength ==
    [][JumpRequested =>
            /\ mover.isGrounded =>
                    /\ mover'.velocityY = JumpStrength
                    /\ ~mover'.isGrounded
                    /\ ~mover'.canJump
            /\ ~mover.isGrounded =>
                    /\ mover'.velocityY =
                            MovedBy([mover EXCEPT !.canJump = FALSE],
                                    mover'.last.d, mover'.last.heading).velocityY
                    /\ mover'.canJump
      ]_vars

\* C36, amended: when a jump is requested and the controlled actor is
\* grounded, in that same tick the vertical velocity starts from the jump
\* strength and gravity is applied to it before it is stored: the request is
\* consumed and, for a tick shorter than jumpStrength / gravity, velocity.y
\* is stored as jumpStrength - gravity * delta, or as 0 when the head meets a
\* ceiling in that tick, and isGrounded becomes false; a jump request made
\* while the actor is airborne does not change velocity.y until the actor is
\* grounded again.
C36_JumpThenGravity ==
    [][JumpRequested =>
            /\ mover.isGrounded =>
                    /\ ~mover'.canJump
                    /\ Scaled(Gravity, mover'.last.d) < JumpStrength =>
                            /\ ~mover'.isGrounded
                            /\ \/ mover'.velocityY =
                                    JumpStrength - Scaled(Gravity, mover'.last.d)
                               \/ /\ mover'.velocityY = 0
                                  /\ mover'.position[2] =
                                        BeamBottom - ENTITY_HEIGHT - CeilingGap
            /\ ~mover.isGrounded =>
                    /\ mover'.velocityY =
                            MovedBy([mover EXCEPT !.canJump = FALSE],
                                    mover'.last.d, mover'.last.heading).velocityY
                    /\ mover'.canJump
      ]_vars

\* a jump has just started from the platform: the request is consumed, the
\* actor is airborne and gravity has already been taken off the jump strength
C36_Witness ==
    /\ AfterResolverTick
    /\ mover.last.jumped
    /\ mover.last.d = 100
    /\ ~mover.canJump
    /\ ~mover.isGrounded
    /\ mover.velocityY = JumpStrength - Scaled(Gravity, 100)
    /\ mover.position[2] = PlatformTop + Scaled(mover.velocityY, 100)

\* a tick has just passed with a jump requested in the air: the request
\* stands and the actor keeps falling
C36_WitnessAirborne ==
    /\ AfterResolverTick
    /\ ~mover.last.jumped
    /\ mover.canJump
    /\ ~mover.isGrounded
    /\ mover.velocityY < 0

---------------------------------------------------------------------------
\* the actor of the scene is at rest on a surface: grounded, no vertical
\* velocity, feet on the top of the platform and over it, or on the ground
\* plane clear of the platform
AtRestOnPlatform ==
    /\ mover.isGrounded
    /\ mover.velocityY = 0
    /\ mover.position[2] = PlatformTop
    /\ mover.position[1] >= PlatformEdge - ENTITY_RADIUS

AtRestOnGround ==
    /\ mover.isGrounded
    /\ mover.velocityY = 0
    /\ mover.position[2] = 0

\* a step is a tick with no input: a tick of the movement resolver with no
\* key held, or a tick of the gravity-only physics
TickWithNoInput ==
    /\ mover'.last.frame # mover.last.frame
    /\ ~mover.moveForward
    /\ ~mover.canJump

\* C37: an actor at rest on a platform top at height H (isGrounded = true,
\* velocity.y = 0), ticked any number of times with no input, keeps
\* position.y = H exactly with isGrounded = true and velocity.y = 0; the same
\* holds at rest on the ground plane y = 0.
C37_GroundSnapIdempotent ==
    [][(TickWithNoInput /\ (AtRestOnPlatform \/ AtRestOnGround)) =>
            /\ mover'.position = mover.position
            /\ mover'.velocityY = 0
            /\ mover'.isGrounded
      ]_vars

\* the actor stands at rest on the platform after a tick of the movement
\* resolver with no input, away from where it was placed
C37_Witness ==
    /\ AfterResolverTick
    /\ ~mover.last.intent
    /\ ~mover.last.jumped
    /\ AtRestOnPlatform
    /\ mover.position[1] < RoomX

\* the actor stands at rest on the platform after a tick of the gravity-only
\* physics
C37_WitnessPhysics ==
    /\ ~mover.controlled
    /\ mover.last.kind = "physics"
    /\ AtRestOnPlatform
    /\ mover.position[1] < RoomX

---------------------------------------------------------------------------
\* C38: after each movement-resolver tick for the controlled actor,
\* isWalking is true if and only if the horizontal intent is non-zero and the
\* actor is grounded (isGrounded as stored after that tick).
C38_WalkingIffIntentAndGrounded ==
    [][ResolverTick =>
            (mover'.isWalking <=> (mover'.last.intent /\ mover'.isGrounded))
      ]_vars

---------------------------------------------------------------------------
\* the companion of the follow scene is stopped within the stop distance of
\* its leader
StoppedNearLeader ==
    /\ ~pcs["p2"].isWalking
    /\ DistanceTo(pcs["p2"].position, pcs["p1"].position)
            < COMPANION_STOP_FOLLOW_DISTANCE

\* C39: with a stationary leader and tick steps smaller than the stop
\* distance, a pursuing idle companion eventually comes within the stop
\* distance (4.0) and stops, and then stays stopped for as long as the leader
\* does not move.
C39_PursuitEnds == [](pcs["p2"].isWalking => <>[]StoppedNearLeader)

\* the companion has just stopped a pursuit that began MaxGap away: its box
\* still stands where it was placed
C39_Witness ==
    /\ AfterCompanionStep
    /\ StoppedNearLeader
    /\ \E f \in follow : f.id = "p2" /\ f.wasWalking
    /\ staticCollidables["p2"] <= -MaxGap

====
